---- MODULE Spec2Model ----
(***************************************************************************)
(* Study progression and decision gating of biz-agent-api                  *)
(* (app/rag/study.py, app/rag/chat.py, app/rag/decisions.py, app/main.py). *)
(*                                                                         *)
(* Text is modelled as a sequence of characters.  A character is a         *)
(* one-character string; a Cyrillic letter is written "cy-<translit>"      *)
(* (upper case "CY-<TRANSLIT>"), the rouble sign "RUB-SIGN" and the        *)
(* multiplication sign "TIMES-SIGN".                                       *)
(***************************************************************************)
EXTENDS Integers, Sequences, FiniteSets, TLC

\* Python None / SQL NULL of a structured value (dict, list, text)
None == <<>>

\* Python None / SQL NULL of a lecture id or label
NoneStr == "None"

Min(a, b) == IF a < b THEN a ELSE b

\* F(value) with value computed once, as the right-hand side of a Python
\* assignment is; a LET definition is computed again at each use
Once(value, F(_)) == CHOOSE out \in {F(v) : v \in {value}} : TRUE

(***************************************************************************)
(* str helpers                                                             *)
(***************************************************************************)

\* str.lower(), character table
UpperToLower ==
    ("A" :> "a") @@
    ("B" :> "b") @@
    ("C" :> "c") @@
    ("D" :> "d") @@
    ("E" :> "e") @@
    ("F" :> "f") @@
    ("G" :> "g") @@
    ("H" :> "h") @@
    ("I" :> "i") @@
    ("J" :> "j") @@
    ("K" :> "k") @@
    ("L" :> "l") @@
    ("M" :> "m") @@
    ("N" :> "n") @@
    ("O" :> "o") @@
    ("P" :> "p") @@
    ("Q" :> "q") @@
    ("R" :> "r") @@
    ("S" :> "s") @@
    ("T" :> "t") @@
    ("U" :> "u") @@
    ("V" :> "v") @@
    ("W" :> "w") @@
    ("X" :> "x") @@
    ("Y" :> "y") @@
    ("Z" :> "z") @@
    ("CY-A" :> "cy-a") @@
    ("CY-B" :> "cy-b") @@
    ("CY-V" :> "cy-v") @@
    ("CY-G" :> "cy-g") @@
    ("CY-D" :> "cy-d") @@
    ("CY-E" :> "cy-e") @@
    ("CY-ZH" :> "cy-zh") @@
    ("CY-Z" :> "cy-z") @@
    ("CY-I" :> "cy-i") @@
    ("CY-J" :> "cy-j") @@
    ("CY-K" :> "cy-k") @@
    ("CY-L" :> "cy-l") @@
    ("CY-M" :> "cy-m") @@
    ("CY-N" :> "cy-n") @@
    ("CY-O" :> "cy-o") @@
    ("CY-P" :> "cy-p") @@
    ("CY-R" :> "cy-r") @@
    ("CY-S" :> "cy-s") @@
    ("CY-T" :> "cy-t") @@
    ("CY-U" :> "cy-u") @@
    ("CY-F" :> "cy-f") @@
    ("CY-H" :> "cy-h") @@
    ("CY-C" :> "cy-c") @@
    ("CY-CH" :> "cy-ch") @@
    ("CY-SH" :> "cy-sh") @@
    ("CY-SHCH" :> "cy-shch") @@
    ("CY-HARD" :> "cy-hard") @@
    ("CY-Y" :> "cy-y") @@
    ("CY-SOFT" :> "cy-soft") @@
    ("CY-EH" :> "cy-eh") @@
    ("CY-YU" :> "cy-yu") @@
    ("CY-YA" :> "cy-ya") @@
    ("CY-YO" :> "cy-yo")

LowerChar(c) == IF c \in DOMAIN UpperToLower THEN UpperToLower[c] ELSE c

\* str.lower()
Lower(s) == [i \in 1..Len(s) |-> LowerChar(s[i])]

\* \d
Digits == {"0", "1", "2", "3", "4", "5", "6", "7", "8", "9"}

\* \s
Whitespace == {" "}

\* characters that are not \w (letters, digits and "_" are \w)
NonWordChars ==
    {" ", "=", ":", "%", ".", ",", "*", "/", "-", "+", "(", ")", "?", "!",
     "RUB-SIGN", "TIMES-SIGN"}

IsWordChar(c) == c \notin NonWordChars

\* s[:n]
Truncate(s, n) == SubSeq(s, 1, Min(Len(s), n))

\* w occurs in s starting at position i
StartsAt(s, i, w) ==
    /\ i + Len(w) - 1 <= Len(s)
    /\ \A k \in 1..Len(w) : s[i + k - 1] = w[k]

\* w in s
Contains(s, w) ==
    \E a \in {s}, b \in {w} : \E i \in 1..(Len(a) + 1) : StartsAt(a, i, b)

\* str.strip()
Strip(s) ==
    Once(s, LAMBDA t :
    Once({i \in 1..Len(t) : t[i] \notin Whitespace}, LAMBDA keep :
        IF keep = {} THEN <<>>
        ELSE LET lo == CHOOSE i \in keep : \A j \in keep : i <= j
                 hi == CHOOSE i \in keep : \A j \in keep : i >= j
             IN  SubSeq(t, lo, hi)))

(***************************************************************************)
(* Identifiers and texts                                                   *)
(***************************************************************************)

ID_roi ==
    <<"r", "o", "i">>
ID_data ==
    <<"d", "a", "t", "a">>
ID_owner ==
    <<"o", "w", "n", "e", "r">>
ID_next_step ==
    <<"n", "e", "x", "t", "_", "s", "t", "e", "p">>
\* an id the model can list that is no stored question's id ("ROI")
ID_ROI_upper ==
    <<"R", "O", "I">>

\* "Как будешь измерять ROI/эффект этого внедрения?"
FALLBACK_TEXT_roi ==
    <<"CY-K", "cy-a", "cy-k", " ", "cy-b", "cy-u", "cy-d", "cy-e", "cy-sh", "cy-soft", " ", "cy-i", "cy-z", "cy-m", "cy-e", "cy-r", "cy-ya", "cy-t", "cy-soft", " ", "R", "O", "I", "/", "cy-eh", "cy-f", "cy-f", "cy-e", "cy-k", "cy-t", " ", "cy-eh", "cy-t", "cy-o", "cy-g", "cy-o", " ", "cy-v", "cy-n", "cy-e", "cy-d", "cy-r", "cy-e", "cy-n", "cy-i", "cy-ya", "?">>
\* "Какие данные/ресурсы нужны для реализации?"
FALLBACK_TEXT_data ==
    <<"CY-K", "cy-a", "cy-k", "cy-i", "cy-e", " ", "cy-d", "cy-a", "cy-n", "cy-n", "cy-y", "cy-e", "/", "cy-r", "cy-e", "cy-s", "cy-u", "cy-r", "cy-s", "cy-y", " ", "cy-n", "cy-u", "cy-zh", "cy-n", "cy-y", " ", "cy-d", "cy-l", "cy-ya", " ", "cy-r", "cy-e", "cy-a", "cy-l", "cy-i", "cy-z", "cy-a", "cy-c", "cy-i", "cy-i", "?">>
\* "Кто будет владельцем процесса/ответственным?"
FALLBACK_TEXT_owner ==
    <<"CY-K", "cy-t", "cy-o", " ", "cy-b", "cy-u", "cy-d", "cy-e", "cy-t", " ", "cy-v", "cy-l", "cy-a", "cy-d", "cy-e", "cy-l", "cy-soft", "cy-c", "cy-e", "cy-m", " ", "cy-p", "cy-r", "cy-o", "cy-c", "cy-e", "cy-s", "cy-s", "cy-a", "/", "cy-o", "cy-t", "cy-v", "cy-e", "cy-t", "cy-s", "cy-t", "cy-v", "cy-e", "cy-n", "cy-n", "cy-y", "cy-m", "?">>
\* "Какой первый конкретный шаг на ближайшие 48 часов?"
FALLBACK_TEXT_next_step ==
    <<"CY-K", "cy-a", "cy-k", "cy-o", "cy-j", " ", "cy-p", "cy-e", "cy-r", "cy-v", "cy-y", "cy-j", " ", "cy-k", "cy-o", "cy-n", "cy-k", "cy-r", "cy-e", "cy-t", "cy-n", "cy-y", "cy-j", " ", "cy-sh", "cy-a", "cy-g", " ", "cy-n", "cy-a", " ", "cy-b", "cy-l", "cy-i", "cy-zh", "cy-a", "cy-j", "cy-sh", "cy-i", "cy-e", " ", "4", "8", " ", "cy-ch", "cy-a", "cy-s", "cy-o", "cy-v", "?">>
\* "Какие данные/ресурсы нужны?"
PROMPT_TEXT_data ==
    <<"CY-K", "cy-a", "cy-k", "cy-i", "cy-e", " ", "cy-d", "cy-a", "cy-n", "cy-n", "cy-y", "cy-e", "/", "cy-r", "cy-e", "cy-s", "cy-u", "cy-r", "cy-s", "cy-y", " ", "cy-n", "cy-u", "cy-zh", "cy-n", "cy-y", "?">>
\* "Кто будет владельцем процесса?"
PROMPT_TEXT_owner ==
    <<"CY-K", "cy-t", "cy-o", " ", "cy-b", "cy-u", "cy-d", "cy-e", "cy-t", " ", "cy-v", "cy-l", "cy-a", "cy-d", "cy-e", "cy-l", "cy-soft", "cy-c", "cy-e", "cy-m", " ", "cy-p", "cy-r", "cy-o", "cy-c", "cy-e", "cy-s", "cy-s", "cy-a", "?">>

FALLBACK_QUESTIONS ==
    << [id |-> ID_roi, text |-> FALLBACK_TEXT_roi],
       [id |-> ID_data, text |-> FALLBACK_TEXT_data],
       [id |-> ID_owner, text |-> FALLBACK_TEXT_owner],
       [id |-> ID_next_step, text |-> FALLBACK_TEXT_next_step] >>

\* the question list of the system prompt's example
PromptExampleQuestions ==
    << [id |-> ID_roi, text |-> FALLBACK_TEXT_roi],
       [id |-> ID_data, text |-> PROMPT_TEXT_data],
       [id |-> ID_owner, text |-> PROMPT_TEXT_owner] >>

\* "timeline", an id the system prompt suggests
ID_timeline ==
    <<"t", "i", "m", "e", "l", "i", "n", "e">>

\* "When?"
TEXT_timeline ==
    <<"W", "h", "e", "n", "?">>

\* a list of five questions: more than the prompt asks the model for
FiveQuestions ==
    FALLBACK_QUESTIONS \o <<[id |-> ID_timeline, text |-> TEXT_timeline]>>

\* a list whose two questions carry the same id
RepeatedIdQuestions ==
    << [id |-> ID_owner, text |-> FALLBACK_TEXT_next_step],
       [id |-> ID_owner, text |-> PROMPT_TEXT_owner] >>

\* "we save roughly a couple of hours"
ReplyVague ==
    <<"w", "e", " ", "s", "a", "v", "e", " ", "r", "o", "u", "g", "h", "l", "y", " ", "a", " ", "c", "o", "u", "p", "l", "e", " ", "o", "f", " ", "h", "o", "u", "r", "s">>
\* "ROI = (50000 - 20000)/20000 = 150%"
ReplyFormula ==
    <<"R", "O", "I", " ", "=", " ", "(", "5", "0", "0", "0", "0", " ", "-", " ", "2", "0", "0", "0", "0", ")", "/", "2", "0", "0", "0", "0", " ", "=", " ", "1", "5", "0", "%">>

(***************************************************************************)
(* ROI validation                                                          *)
(***************************************************************************)

CurrencyUnits ==
    {<<"RUB-SIGN">>,
     <<"cy-r", "cy-u", "cy-b">>,
     <<"cy-r", "cy-u", "cy-b", "cy-l", "cy-e", "cy-j">>,
     <<"cy-r", ".">>}
TimeUnits ==
    {<<"cy-ch", "cy-a", "cy-s">>,
     <<"cy-ch", ".">>,
     <<"cy-ch", "cy-a", "cy-s", "cy-o", "cy-v">>,
     <<"cy-m", "cy-i", "cy-n", "cy-u", "cy-t">>,
     <<"cy-m", "cy-i", "cy-n">>}
PercentUnits ==
    {<<"%">>,
     <<"cy-p", "cy-r", "cy-o", "cy-c", "cy-e", "cy-n", "cy-t">>}
DurationUnits ==
    {<<"cy-d", "cy-e", "cy-n", "cy-soft">>,
     <<"cy-d", "cy-n">>,
     <<"cy-d", "cy-n", "cy-e", "cy-j">>,
     <<"cy-n", "cy-e", "cy-d", "cy-e", "cy-l">>,
     <<"cy-m", "cy-e", "cy-s", "cy-ya", "cy-c">>,
     <<"cy-m", "cy-e", "cy-s">>,
     <<"cy-g", "cy-o", "cy-d">>,
     <<"cy-l", "cy-e", "cy-t">>}
EconomyWords ==
    {<<"cy-eh", "cy-k", "cy-o", "cy-n", "cy-o", "cy-m", "cy-i", "cy-ya">>,
     <<"cy-eh", "cy-k", "cy-o", "cy-n", "cy-o", "cy-m", "cy-i", "cy-yu">>,
     <<"cy-s", "cy-eh", "cy-k", "cy-o", "cy-n", "cy-o", "cy-m">>}
BenefitWords ==
    {<<"cy-v", "cy-y", "cy-g", "cy-o", "cy-d", "cy-a">>,
     <<"cy-v", "cy-y", "cy-g", "cy-o", "cy-d", "cy-y">>}
PaybackWords ==
    {<<"cy-o", "cy-k", "cy-u", "cy-p", "cy-a">>}
W_r ==
    {<<"cy-r">>}
W_ch ==
    {<<"cy-ch">>}
W_roi ==
    {<<"r", "o", "i">>}

\* \d+\s*(u1|u2|...) matches somewhere in t
DigitThen(t, units) ==
    \E i \in 1..Len(t) :
        /\ t[i] \in Digits
        /\ \E j \in (i + 1)..(Len(t) + 1) :
              /\ \A k \in (i + 1)..(j - 1) : t[k] \in Whitespace
              /\ \E w \in units : StartsAt(t, j, w)

\* \d+\s*(u\b) matches somewhere in t
DigitThenWordEnd(t, units) ==
    \E i \in 1..Len(t) :
        /\ t[i] \in Digits
        /\ \E j \in (i + 1)..(Len(t) + 1) :
              /\ \A k \in (i + 1)..(j - 1) : t[k] \in Whitespace
              /\ \E w \in units :
                    /\ StartsAt(t, j, w)
                    /\ \/ j + Len(w) > Len(t)
                       \/ ~IsWordChar(t[j + Len(w)])

\* ROI\s*[=:] matches somewhere in t (t is lower case)
RoiFormula(t) ==
    \E i \in 1..Len(t) : \E w \in W_roi :
        /\ StartsAt(t, i, w)
        /\ \E j \in (i + Len(w))..Len(t) :
              /\ \A k \in (i + Len(w))..(j - 1) : t[k] \in Whitespace
              /\ t[j] \in {"=", ":"}

\* \d+[.,]\d+ matches somewhere in t
DecimalNumber(t) ==
    \E i \in 1..(Len(t) - 2) :
        t[i] \in Digits /\ t[i + 1] \in {".", ","} /\ t[i + 2] \in Digits

\* \d+\s*[*×x]\s*\d+ matches somewhere in t (t is lower case)
Multiplication(t) ==
    \E i \in 1..Len(t) :
        /\ t[i] \in Digits
        /\ \E j \in (i + 1)..Len(t) :
              /\ \A m \in (i + 1)..(j - 1) : t[m] \in Whitespace
              /\ t[j] \in {"*", "TIMES-SIGN", "x"}
              /\ \E k \in (j + 1)..Len(t) :
                    /\ \A m \in (j + 1)..(k - 1) : t[m] \in Whitespace
                    /\ t[k] \in Digits

\* any(re.search(pattern, user_answer, re.IGNORECASE) for pattern in roi_signals)
analyze_roi_answer(user_answer) ==
    \E t \in {Lower(user_answer)} :
        \/ DigitThen(t, CurrencyUnits) \/ DigitThenWordEnd(t, W_r)
        \/ DigitThen(t, TimeUnits) \/ DigitThenWordEnd(t, W_ch)
        \/ DigitThen(t, PercentUnits)
        \/ DigitThen(t, DurationUnits)
        \/ RoiFormula(t)
        \/ \E w \in EconomyWords : Contains(t, w)
        \/ \E w \in BenefitWords : Contains(t, w)
        \/ \E w \in PaybackWords : Contains(t, w)
        \/ DecimalNumber(t)
        \/ Multiplication(t)

(***************************************************************************)
(* Curriculum: the course_lectures and course_chunks tables                *)
(***************************************************************************)

Lecture(id, m, d, o, st) ==
    [lecture_id |-> id, module |-> m, day |-> d, lecture_order |-> o,
     speaker_type |-> st]

Chunk(lec, seq, st, ct) ==
    [lecture_id |-> lec, sequence_order |-> seq, speaker_type |-> st,
     content_type |-> ct]

\* chunks 1..n of a lecture (chunker numbers them from 1); the last one is a
\* student comment when lastIsComment
ChunksOf(lec, st, n, lastIsComment) ==
    {Chunk(lec, i, st,
           IF lastIsComment /\ i = n THEN "student_comment" ELSE "theory")
        : i \in 1..n}

\* number of units of the first methodology lecture
FirstLectureUnits == 6

\* number of units of the second methodology lecture
SecondLectureUnits == 2

\* a case study, then two methodology lectures
Course1 ==
    [lectures |-> {Lecture("case-1", 1, 1, 1, "case_study"),
                   Lecture("meth-1", 1, 1, 2, "methodology"),
                   Lecture("meth-2", 1, 2, 1, "methodology")},
     chunks |-> ChunksOf("case-1", "case_study", 2, FALSE)
                \cup ChunksOf("meth-1", "methodology", FirstLectureUnits, TRUE)
                \cup ChunksOf("meth-2", "methodology", SecondLectureUnits, FALSE)]

Courses == {Course1}

\* get_next_methodology_chunks(progress, limit: int = 5)
BlockLimit == 5

(***************************************************************************)
(* State                                                                   *)
(***************************************************************************)

VARIABLES
    course,            \* course_lectures and course_chunks (read-only)
    FORCE_FALLBACK_QUESTIONS,  \* app.config flag (read-only)
    user_progress,     \* the learner's user_progress row, None when no row
    company_memory,    \* the company_memory table, in insertion order
    resp,              \* what the last operation returned
    skipped_since,     \* history: ids skip_question has skipped since the
                       \* last block load
    answered_since,    \* history: ids mark_questions_answered has set to
                       \* answered since the last commit or clear
    steps,             \* number of requests served so far
    inflight           \* the requests being served at the same time: where
                       \* each is in its handler and what it has read

vars == <<course, FORCE_FALLBACK_QUESTIONS, user_progress, company_memory,
          resp, answered_since, skipped_since, steps, inflight>>

\* a user_progress row created by an insert that names none of the gate
\* columns: they take the table's defaults, which every reader treats as empty
NewRow ==
    [current_module |-> 1, current_day |-> 1, current_lecture_id |-> NoneStr,
     current_sequence_order |-> 0, pending_questions |-> <<>>,
     pending_block_id |-> None, draft_decision |-> None]

\* .update(values).eq("user_id", user_id): changes the named columns of the
\* row, and nothing when there is no row
Update(row, values) ==
    Once(row, LAMBDA old :
    Once(values, LAMBDA new :
        IF old = None THEN None
        ELSE [f \in DOMAIN old |->
                IF f \in DOMAIN new THEN new[f] ELSE old[f]]))

\* .upsert(values, on_conflict="user_id"): insert, or on conflict set the
\* named columns of the existing row
Upsert(row, values) ==
    IF row = None THEN Update(NewRow, values) ELSE Update(row, values)

EmptyResp ==
    [op |-> NoneStr, type |-> NoneStr, request |-> None, chunks |-> <<>>,
     current_question |-> None, questions_stats |-> None,
     all_closed |-> FALSE, can_continue |-> FALSE, memory_saved |-> FALSE,
     skipped |-> <<>>, fallback_used |-> FALSE, block_id |-> None,
     conflicts |-> <<>>]

(***************************************************************************)
(* Pending questions                                                       *)
(***************************************************************************)

\* get_pending_questions
get_pending_questions(row) ==
    IF row = None THEN <<>> ELSE row.pending_questions

\* get_pending_block_id
get_pending_block_id(row) ==
    IF row = None THEN None ELSE row.pending_block_id

\* get_draft_decision
get_draft_decision(row) ==
    IF row = None THEN None ELSE row.draft_decision

\* faulty variant of OpenOf: the status filter is lost (used to test that the properties can fail)
OpenOf_unfiltered(questions) == questions

\* [q for q in questions if q.get("status") == "open"]
OpenOf(questions) ==
    SelectSeq(questions, LAMBDA q : q.status = "open")

get_open_questions(row) == OpenOf(get_pending_questions(row))

get_current_question(row) ==
    LET open_qs == get_open_questions(row)
    IN  IF open_qs # <<>> THEN open_qs[1] ELSE None

\* faulty variant of all_questions_closed: any() in place of all() (used to test that the properties can fail)
all_questions_closed_any(row) ==
    LET questions == get_pending_questions(row)
    IN  IF questions = <<>> THEN TRUE
        ELSE \E i \in 1..Len(questions) :
                questions[i].status \in {"answered", "skipped"}

\* faulty variant of all_questions_closed: an empty set counts as not closed (used to test that the properties can fail)
all_questions_closed_nonempty(row) ==
    LET questions == get_pending_questions(row)
    IN  /\ questions # <<>>
        /\ \A i \in 1..Len(questions) :
              questions[i].status \in {"answered", "skipped"}

all_questions_closed(row) ==
    LET questions == get_pending_questions(row)
    IN  IF questions = <<>> THEN TRUE
        ELSE \A i \in 1..Len(questions) :
                questions[i].status \in {"answered", "skipped"}

\* faulty variant of CountStatus: the status is not compared (used to test that the properties can fail)
CountStatus_any(questions, s) == Len(questions)

CountStatus(questions, s) ==
    Cardinality({i \in 1..Len(questions) : questions[i].status = s})

get_questions_stats(row) ==
    LET questions == get_pending_questions(row)
    IN  [total |-> Len(questions),
         answered |-> CountStatus(questions, "answered"),
         skipped |-> CountStatus(questions, "skipped"),
         open |-> CountStatus(questions, "open")]

save_pending_questions(row, questions) ==
    Update(row, [pending_questions |-> questions])

clear_pending_questions(row) ==
    Update(row, [pending_questions |-> <<>>, pending_block_id |-> None])

save_pending_questions_with_block(row, questions, block_id) ==
    Update(row, [pending_questions |-> questions, pending_block_id |-> block_id])

\* f"{lecture_id}:{seq_start}-{seq_end}"
compute_block_id(chunks) ==
    IF chunks = <<>> THEN <<"unknown">>
    ELSE <<chunks[1].lecture_id, chunks[1].sequence_order,
           chunks[Len(chunks)].sequence_order>>

OpenQuestion(q) ==
    [id |-> q.id, text |-> q.text, status |-> "open", user_answer |-> None]

\* faulty variant of generate_fallback_questions: no question is generated (used to test that the properties can fail)
generate_fallback_questions_none == <<>>

generate_fallback_questions ==
    [i \in 1..Len(FALLBACK_QUESTIONS) |-> OpenQuestion(FALLBACK_QUESTIONS[i])]

\* marks a key the JSON object does not have
Missing == <<"Missing">>

\* the model's reply to the study prompt, as parse_pending_questions sees it:
\* no <pending_questions> block, a block that is not JSON, or a JSON list
parse_pending_questions(llm) ==
    IF llm.kind # "list" THEN <<>>
    ELSE LET valid == SelectSeq(llm.items,
                        LAMBDA q : q.id # Missing /\ q.text # Missing)
         IN  [i \in 1..Len(valid) |-> OpenQuestion(valid[i])]

(***************************************************************************)
(* Cursor and block loader                                                 *)
(***************************************************************************)

\* .order("module").order("day").order("lecture_order")
LectureBefore(a, b) ==
    \/ a.module < b.module
    \/ a.module = b.module /\ a.day < b.day
    \/ a.module = b.module /\ a.day = b.day /\ a.lecture_order < b.lecture_order

\* .limit(1) of the ordered query over a set of lectures: its lecture_id, or
\* None when the query returns no row
FirstLectureId(lectures) ==
    IF lectures = {} THEN NoneStr
    ELSE (CHOOSE l \in lectures :
            \A o \in lectures : o = l \/ LectureBefore(l, o)).lecture_id

MethodologyLectures(c) ==
    {l \in c.lectures : l.speaker_type = "methodology"}

\* .order("sequence_order").limit(limit) over a set of chunks
OrderedChunks(chunks, limit) ==
    LET n == Min(Cardinality(chunks), limit)
    IN  [i \in 1..n |->
            CHOOSE ch \in chunks :
                Cardinality({d \in chunks :
                    d.sequence_order < ch.sequence_order}) = i - 1]

get_next_methodology_chunks(c, progress, limit) ==
    LET current_lecture_id == progress.current_lecture_id
        current_seq == progress.current_sequence_order
        first_lecture_id == FirstLectureId(MethodologyLectures(c))
        in_current ==
            OrderedChunks({ch \in c.chunks :
                /\ ch.speaker_type = "methodology"
                /\ ch.lecture_id = current_lecture_id
                /\ ch.sequence_order > current_seq}, limit)
        current_lecture == {l \in c.lectures : l.lecture_id = current_lecture_id}
        curr == CHOOSE l \in current_lecture : TRUE
        next_lecture_id ==
            FirstLectureId({l \in MethodologyLectures(c) : LectureBefore(curr, l)})
    IN  IF current_lecture_id = NoneStr
        THEN \* CASE 1: fresh start
             IF first_lecture_id = NoneStr THEN <<>>
             ELSE OrderedChunks({ch \in c.chunks :
                      ch.lecture_id = first_lecture_id}, limit)
        ELSE IF in_current # <<>>
        THEN \* CASE 2: continue in the current lecture
             in_current
        ELSE \* CASE 3: move to the next methodology lecture
             IF current_lecture = {} THEN <<>>
             ELSE IF next_lecture_id = NoneStr THEN <<>>
             ELSE OrderedChunks({ch \in c.chunks :
                      ch.lecture_id = next_lecture_id}, limit)

\* the progress dict reset_progress builds and upserts
ResetValues(c) ==
    [current_module |-> 1, current_day |-> 1,
     current_lecture_id |-> FirstLectureId(MethodologyLectures(c)),
     current_sequence_order |-> 0]

reset_progress(c, row) == Upsert(row, ResetValues(c))

\* the upsert of chat_reset_endpoint
chat_reset_endpoint(row) ==
    Upsert(row, [current_module |-> 1, current_day |-> 1,
                 current_lecture_id |-> NoneStr, current_sequence_order |-> 0])

\* faulty variant of update_progress: the sequence cursor is not written (used to test that the properties can fail)
update_progress_keeps_cursor(c, row, lecture_id, sequence_order) ==
    LET lecture == {l \in c.lectures : l.lecture_id = lecture_id}
        lec == CHOOSE l \in lecture : TRUE
    IN  IF lecture = {} THEN row
        ELSE Update(row, [current_module |-> lec.module,
                          current_day |-> lec.day,
                          current_lecture_id |-> lecture_id])

update_progress(c, row, lecture_id, sequence_order) ==
    LET lecture == {l \in c.lectures : l.lecture_id = lecture_id}
        lec == CHOOSE l \in lecture : TRUE
    IN  IF lecture = {} THEN row
        ELSE Update(row, [current_module |-> lec.module,
                          current_day |-> lec.day,
                          current_lecture_id |-> lecture_id,
                          current_sequence_order |-> sequence_order])

\* study_next: the row it leaves and what it returns
study_next(c, force_fallback, row, llm) ==
    Once(IF row = None THEN ResetValues(c) ELSE row, LAMBDA progress :
    Once(IF row = None THEN reset_progress(c, row) ELSE row, LAMBDA row1 :
    Once(get_next_methodology_chunks(c, progress, BlockLimit), LAMBDA chunks :
    LET row2 == clear_pending_questions(row1)
        block_id == compute_block_id(chunks)
        parsed == IF force_fallback THEN <<>> ELSE parse_pending_questions(llm)
        fallback_used == (parsed = <<>>)
        pending == IF fallback_used THEN generate_fallback_questions ELSE parsed
        row3 == save_pending_questions_with_block(row2, pending, block_id)
        last_chunk == chunks[Len(chunks)]
        row4 == update_progress(c, row3, last_chunk.lecture_id,
                                last_chunk.sequence_order)
    IN  IF chunks = <<>>
        THEN [row |-> row2,
              result |-> [EmptyResp EXCEPT !.type = "completed"]]
        ELSE [row |-> row4,
              result |-> [EmptyResp EXCEPT
                  !.type = "block",
                  !.chunks = chunks,
                  !.current_question = get_current_question(row4),
                  !.questions_stats = get_questions_stats(row4),
                  !.can_continue = FALSE,
                  !.fallback_used = fallback_used,
                  !.block_id = block_id]])))

(***************************************************************************)
(* Draft and commit                                                        *)
(***************************************************************************)

\* index of the draft entry of question_id, 0 when there is none
DraftIndex(answers, question_id) ==
    LET hits == {i \in 1..Len(answers) : answers[i].question_id = question_id}
    IN  IF hits = {} THEN 0 ELSE CHOOSE i \in hits : \A j \in hits : i <= j

\* faulty variant of save_draft_answer: the entry of the question is not looked up, every write appends (used to test that the properties can fail)
save_draft_answer_appends(row, question_id, answer_text, topic) ==
    LET old == get_draft_decision(row)
        draft == IF old = None
                 THEN [topic |-> IF topic \in {NoneStr, ""} THEN "Study decision"
                                 ELSE topic,
                       answers |-> <<>>]
                 ELSE old
        entry == [question_id |-> question_id, answer |-> answer_text]
    IN  Update(row, [draft_decision |->
                        [draft EXCEPT !.answers = Append(draft.answers, entry)]])

save_draft_answer(row, question_id, answer_text, topic) ==
    Once(row, LAMBDA stored :
    Once(get_draft_decision(stored), LAMBDA old :
    LET draft == IF old = None
                 THEN [topic |-> IF topic \in {NoneStr, ""} THEN "Study decision"
                                 ELSE topic,
                       answers |-> <<>>]
                 ELSE old
        at == DraftIndex(draft.answers, question_id)
        entry == [question_id |-> question_id, answer |-> answer_text]
        answers == IF at # 0 THEN [draft.answers EXCEPT ![at] = entry]
                   ELSE Append(draft.answers, entry)
    IN  Update(stored, [draft_decision |-> [draft EXCEPT !.answers = answers]])))

\* the record save_memory inserts; user_decision_raw keeps the "- id: answer"
\* lines as pairs, user_decision_normalized the topic and the 100-
\* character heads of the first three answers
DecisionRecord(memory_id, row, draft) ==
    [id |-> memory_id,
     status |-> "active",
     related_module |-> IF row = None THEN 1 ELSE row.current_module,
     related_day |-> IF row = None THEN 1 ELSE row.current_day,
     related_lecture_id |-> IF row = None THEN "" ELSE row.current_lecture_id,
     related_topic |-> draft.topic,
     user_decision_raw |-> draft.answers,
     user_decision_normalized |->
        [topic |-> draft.topic,
         heads |-> [i \in 1..Min(Len(draft.answers), 3) |->
                      Truncate(draft.answers[i].answer, 100)]]]

\* faulty variant of commit_decision: the draft is not cleared after the insert (used to test that the properties can fail)
commit_decision_keeps_draft(row, memory) ==
    LET draft == get_draft_decision(row)
        memory_id == Len(memory) + 1
    IN  IF draft = None \/ draft.answers = <<>>
        THEN [row |-> row, memory |-> memory, committed |-> FALSE]
        ELSE [row |-> row,
              memory |-> Append(memory, DecisionRecord(memory_id, row, draft)),
              committed |-> TRUE]

\* commit_decision: the row and table it leaves, committed = it returned a
\* decision
commit_decision(row, memory) ==
    Once(get_draft_decision(row), LAMBDA draft :
    LET memory_id == Len(memory) + 1
    IN  IF draft = None \/ draft.answers = <<>>
        THEN [row |-> row, memory |-> memory, committed |-> FALSE]
        ELSE [row |-> Update(row, [draft_decision |-> None]),
              memory |-> Append(memory, DecisionRecord(memory_id, row, draft)),
              committed |-> TRUE])

(***************************************************************************)
(* Answers and skips                                                       *)
(***************************************************************************)

\* for qid in answered_ids: save_draft_answer(user_id, qid, answer[:500], topic)
RECURSIVE SaveDraftAnswers(_, _, _, _)
SaveDraftAnswers(row, ids, answer_text, topic) ==
    IF ids = <<>> THEN row
    ELSE SaveDraftAnswers(save_draft_answer(row, Head(ids), answer_text, topic),
                          Tail(ids), answer_text, topic)

\* ids as a set: x in ids
InList(x, ids) == \E i \in 1..Len(ids) : ids[i] = x

\* faulty variant of MarkAnswered: a question the list does not name is set to open (used to test that the properties can fail)
MarkAnswered_reopens(questions, answered_ids, user_answer) ==
    [i \in 1..Len(questions) |->
        IF InList(questions[i].id, answered_ids)
        THEN [questions[i] EXCEPT
                !.status = "answered",
                !.user_answer = IF user_answer # <<>> THEN user_answer ELSE @]
        ELSE [questions[i] EXCEPT !.status = "open"]]

\* the loop of mark_questions_answered over the stored questions
MarkAnswered(questions, answered_ids, user_answer) ==
    [i \in 1..Len(questions) |->
        IF InList(questions[i].id, answered_ids)
        THEN [questions[i] EXCEPT
                !.status = "answered",
                !.user_answer = IF user_answer # <<>> THEN user_answer ELSE @]
        ELSE questions[i]]

mark_questions_answered(row, answered_ids, user_answer) ==
    Once(row, LAMBDA stored :
    Once(get_pending_questions(stored), LAMBDA questions :
        save_pending_questions(stored,
            MarkAnswered(questions, answered_ids, user_answer))))

\* for q in questions: if q["id"] in skipped_ids: q["status"] = "skipped"
MarkSkipped(questions, skipped_ids) ==
    [i \in 1..Len(questions) |->
        IF InList(questions[i].id, skipped_ids)
        THEN [questions[i] EXCEPT !.status = "skipped"]
        ELSE questions[i]]

\* replies the learner sends
Replies == {ReplyVague, ReplyFormula}

\* answer[:500]
AnswerLimit == 500

\* a reply one character longer than what the draft keeps of a reply
ReplyLong == [i \in 1..(AnswerLimit + 1) |-> "a"]

\* the ROI signal of each reply, computed once
RoiSignal == [r \in Replies \cup {ReplyLong} |-> analyze_roi_answer(r)]

\* faulty variant of RoiGuard: the guard is missing (used to test that the properties can fail)
RoiGuard_missing(answered_ids, answer) == answered_ids

\* the ROI guard: an id containing "roi" is taken off the answered list when
\* the reply carries no ROI signal
RoiGuard(answered_ids, answer) ==
    IF RoiSignal[answer] THEN answered_ids
    ELSE SelectSeq(answered_ids, LAMBDA qid : ~Contains(Lower(qid), ID_roi))

\* where a commit can meet a failure of a collaborator: embed_query raises,
\* the insert into company_memory raises, the update that clears the draft
\* raises
CommitFailures == {"embed", "insert", "clear"}

\* commit_decision when the collaborator call named by fail raises: the row
\* and table the exception leaves behind
commit_decision_failing(row, memory, fail) ==
    LET draft == get_draft_decision(row)
        memory_id == Len(memory) + 1
    IN  IF draft = None \/ draft.answers = <<>>
        THEN [row |-> row, memory |-> memory, committed |-> FALSE]
        ELSE IF fail \in {"embed", "insert"}
        THEN [row |-> row, memory |-> memory, committed |-> FALSE]
        ELSE [row |-> row,
              memory |-> Append(memory, DecisionRecord(memory_id, row, draft)),
              committed |-> FALSE]

\* process_user_answer up to the check for closure: the row after the draft
\* entries and the answered and skipped marks are written
process_user_answer_marks(row, answer, analysis, topic) ==
    Once(IF analysis = None THEN <<>> ELSE RoiGuard(analysis.answered, answer),
         LAMBDA answered_ids :
    Once(Truncate(answer, AnswerLimit), LAMBDA text :
    Once(IF answered_ids # <<>>
         THEN mark_questions_answered(
                 SaveDraftAnswers(row, answered_ids, text, topic),
                 answered_ids, text)
         ELSE row, LAMBDA row1 :
    LET skipped_ids == IF analysis = None THEN <<>> ELSE analysis.skipped
    IN  IF skipped_ids # <<>>
        THEN Once(get_pending_questions(row1), LAMBDA questions :
                save_pending_questions(row1, MarkSkipped(questions, skipped_ids)))
        ELSE row1)))

\* process_user_answer; analysis is None when parse_questions_analysis returns
\* None or an empty object, else the answered and skipped lists of the object;
\* fail names the collaborator call of the commit that raises, "none" when
\* every call succeeds. failed = the exception left process_user_answer
process_user_answer_failing(row, memory, answer, analysis, topic, fail) ==
    Once(IF analysis = None THEN <<>> ELSE RoiGuard(analysis.answered, answer),
         LAMBDA answered_ids :
    Once(process_user_answer_marks(row, answer, analysis, topic), LAMBDA row2 :
    Once(all_questions_closed(row2), LAMBDA all_closed :
    Once(get_draft_decision(row2), LAMBDA draft :
    Once(IF all_closed /\ draft # None
         THEN IF fail = "none" THEN commit_decision(row2, memory)
              ELSE commit_decision_failing(row2, memory, fail)
         ELSE [row |-> row2, memory |-> memory, committed |-> FALSE],
         LAMBDA commit :
    LET failed == /\ fail # "none"
                  /\ all_closed
                  /\ draft # None
                  /\ draft.answers # <<>>
        stored == get_pending_questions(row)
    IN  [row |-> commit.row,
         memory |-> commit.memory,
         marked |-> {stored[i].id : i \in {j \in 1..Len(stored) :
                        InList(stored[j].id, answered_ids)}},
         failed |-> failed,
         result |-> IF failed THEN [EmptyResp EXCEPT !.type = "error"]
                    ELSE [EmptyResp EXCEPT
                        !.type = "answer",
                        !.memory_saved = commit.committed,
                        !.current_question = get_current_question(commit.row),
                        !.questions_stats = get_questions_stats(commit.row),
                        !.all_closed = all_closed,
                        !.can_continue = all_closed]])))))

\* process_user_answer with every collaborator call succeeding
process_user_answer(row, memory, answer, analysis, topic) ==
    process_user_answer_failing(row, memory, answer, analysis, topic, "none")

\* skip_question: the row it leaves, the ids and the texts it skipped
skip_question(row, query) ==
    Once(get_pending_questions(row), LAMBDA questions :
    Once(Strip(Lower(query)), LAMBDA query_lower :
    Once({i \in 1..Len(questions) :
                  /\ questions[i].status = "open"
                  /\ \/ Lower(questions[i].id) = query_lower
                     \/ Contains(Lower(questions[i].text), query_lower)},
         LAMBDA hit :
    LET skipped_ids == {questions[i].id : i \in hit}
        marked == [i \in 1..Len(questions) |->
                     IF questions[i].id \in skipped_ids
                     THEN [questions[i] EXCEPT !.status = "skipped"]
                     ELSE questions[i]]
        hits == SelectSeq([i \in 1..Len(questions) |-> i], LAMBDA i : i \in hit)
    IN  [row |-> IF hit # {} THEN save_pending_questions(row, marked) ELSE row,
         skipped_ids |-> skipped_ids,
         skipped_texts |-> [k \in 1..Len(hits) |-> questions[hits[k]].text]])))

(***************************************************************************)
(* Inputs                                                                  *)
(***************************************************************************)

\* "answered" lists of a classification: none, the ROI question, the other two
\* questions of the prompt's example, an id in another case than the stored one
AnsweredLists == {<<>>, <<ID_roi>>, <<ID_data, ID_owner>>, <<ID_ROI_upper>>}

\* "skipped" lists of a classification
SkippedLists == {<<>>, <<ID_roi>>}

\* what parse_questions_analysis can return
Analyses ==
    {None} \cup [answered : AnsweredLists, skipped : SkippedLists]

\* what the model returns for a block
StudyOutputs ==
    {[kind |-> "no_block", items |-> <<>>],
     [kind |-> "bad_json", items |-> <<>>],
     [kind |-> "list", items |-> <<>>],
     [kind |-> "list", items |-> <<[id |-> ID_roi, text |-> Missing]>>],
     [kind |-> "list", items |-> PromptExampleQuestions],
     [kind |-> "list", items |-> FiveQuestions]}

\* "roi", " ROI ", "data", "48", "zzz"
SkipQueries ==
    {<<"r", "o", "i">>, <<" ", "R", "O", "I", " ">>, <<"d", "a", "t", "a">>,
     <<"4", "8">>, <<"z", "z", "z">>}

\* most decisions the table holds
MaxDecisions == 2

\* most records the table holds after a refinement
MaxRecords == 3

\* most requests of one run
MaxSteps == 4

\* the requests that can be in flight together
Requests == {1, 2}

\* a request slot with no request in it
IdleRequest ==
    [pc |-> "idle", progress |-> None, chunks |-> <<>>, draft |-> None,
     closed |-> FALSE, overlap |-> FALSE, inserted |-> 0, result |-> NoneStr]

NoRequests == [i \in Requests |-> IdleRequest]

\* one more request is served, from its first statement to its last with no
\* other request in between
Step == steps < MaxSteps /\ steps' = steps + 1 /\ inflight' = inflight

(***************************************************************************)
(* Operations                                                              *)
(***************************************************************************)

Init ==
    /\ course \in Courses
    /\ FORCE_FALLBACK_QUESTIONS \in BOOLEAN
    /\ user_progress = None
    /\ company_memory = <<>>
    /\ resp = EmptyResp
    /\ answered_since = {}
    /\ skipped_since = {}
    /\ steps = 0
    /\ inflight = NoRequests

\* reset(learner): reset_progress ("/study/start", "/start", "reset")
Reset ==
    /\ Step
    /\ user_progress' = reset_progress(course, user_progress)
    /\ resp' = [EmptyResp EXCEPT !.op = "reset", !.type = "reset"]
    /\ UNCHANGED <<course, FORCE_FALLBACK_QUESTIONS, company_memory,
                   answered_since, skipped_since>>

\* "/chat/reset"
ChatReset ==
    /\ Step
    /\ user_progress' = chat_reset_endpoint(user_progress)
    /\ resp' = [EmptyResp EXCEPT !.op = "chat_reset", !.type = "reset"]
    /\ UNCHANGED <<course, FORCE_FALLBACK_QUESTIONS, company_memory,
                   answered_since, skipped_since>>

\* load_next_block(learner): study_next ("/study/next", "/next"); step is how
\* the request is counted, outputs what the model can return
LoadNextBlockWith(step, outputs) ==
    \E llm \in outputs :
        \E r \in {study_next(course, FORCE_FALLBACK_QUESTIONS, user_progress,
                              llm)} :
            /\ step
            /\ user_progress' = r.row
            /\ resp' = [r.result EXCEPT !.op = "load_next_block"]
            /\ answered_since' = {}
            /\ skipped_since' = {}
            /\ UNCHANGED <<course, FORCE_FALLBACK_QUESTIONS, company_memory>>

LoadNextBlockOf(outputs) == LoadNextBlockWith(Step, outputs)

LoadNextBlock == LoadNextBlockOf(StudyOutputs)

\* submit_answer(learner, reply): the answer branch of process_chat_message;
\* step is how the request is counted, limit the most decisions the table
\* holds
SubmitAnswerWith(step, replies, limit) ==
    \E answer \in replies, analysis \in Analyses :
        \E topic \in {IF user_progress = None THEN ""
                       ELSE user_progress.current_lecture_id} :
        \E r \in {process_user_answer(user_progress, company_memory, answer,
                                       analysis, topic)} :
            /\ step
            /\ Len(r.memory) <= limit
            /\ user_progress' = r.row
            /\ company_memory' = r.memory
            /\ resp' = [r.result EXCEPT
                  !.op = "submit_answer",
                  !.request = [answer |-> answer, analysis |-> analysis]]
            /\ answered_since' = IF r.result.memory_saved THEN {}
                                 ELSE answered_since \cup r.marked
            /\ UNCHANGED <<course, FORCE_FALLBACK_QUESTIONS, skipped_since>>

SubmitAnswerOf(replies) == SubmitAnswerWith(Step, replies, MaxDecisions)

SubmitAnswer == SubmitAnswerOf(Replies)

\* skip_question(learner, query): the skip branch of process_chat_message
SkipQuestionWith(step) ==
    \E query \in SkipQueries :
        \E skip_query \in {Strip(query)} :
        \E r \in {skip_question(user_progress, skip_query)} :
            /\ step
            /\ skip_query # <<>>
            /\ user_progress' = r.row
            /\ resp' = [EmptyResp EXCEPT
                  !.op = "skip_question",
                  !.type = "skip",
                  !.request = [query |-> query],
                  !.skipped = r.skipped_texts,
                  !.current_question = get_current_question(r.row),
                  !.questions_stats = get_questions_stats(r.row),
                  !.can_continue = all_questions_closed(r.row)]
            /\ skipped_since' = skipped_since \cup r.skipped_ids
            /\ UNCHANGED <<course, FORCE_FALLBACK_QUESTIONS, company_memory,
                           answered_since>>

SkipQuestion == SkipQuestionWith(Step)

\* some stored question is open
HasOpen(qs) == \E i \in 1..Len(qs) : qs[i].status = "open"

\* faulty variant of should_skip_gate: only a missing block identity bypasses the gate (used to test that the properties can fail)
should_skip_gate_no_block_only(pending_block_id, current_lecture_id) ==
    pending_block_id = None

\* the staleness check of the continue branch
should_skip_gate(pending_block_id, current_lecture_id) ==
    pending_block_id = None \/ current_lecture_id = NoneStr

\* request_advance(learner): the continue branch of process_chat_message; the
\* request records what the staleness check and the gate saw
RequestAdvanceWith(step, outputs) ==
    \E llm \in outputs :
        LET pending_block_id == get_pending_block_id(user_progress)
            current_lecture_id == IF user_progress = None THEN NoneStr
                                  ELSE user_progress.current_lecture_id
            skip_gate == should_skip_gate(pending_block_id, current_lecture_id)
            request == [had_block_id |-> pending_block_id # None,
                        had_lecture |-> current_lecture_id # NoneStr,
                        had_open |-> HasOpen(get_pending_questions(user_progress))]
            row1 == IF pending_block_id # None /\ current_lecture_id = NoneStr
                    THEN clear_pending_questions(user_progress)
                    ELSE user_progress
            open_questions == get_open_questions(user_progress)
        IN  \E r \in {study_next(course, FORCE_FALLBACK_QUESTIONS, row1, llm)} :
            /\ step
            /\ IF ~skip_gate /\ open_questions # <<>>
               THEN /\ resp' = [EmptyResp EXCEPT
                          !.op = "request_advance",
                          !.type = "gate_blocked",
                          !.request = request,
                          !.current_question = open_questions[1],
                          !.questions_stats = get_questions_stats(user_progress),
                          !.can_continue = FALSE]
                    /\ UNCHANGED <<course, FORCE_FALLBACK_QUESTIONS, user_progress,
                                   company_memory, answered_since,
                                   skipped_since>>
               ELSE /\ user_progress' = r.row
                    /\ resp' = [r.result EXCEPT !.op = "request_advance",
                                                !.request = request]
                    /\ answered_since' = {}
                    /\ skipped_since' = {}
                    /\ UNCHANGED <<course, FORCE_FALLBACK_QUESTIONS, company_memory>>

RequestAdvance == RequestAdvanceWith(Step, StudyOutputs)

Next ==
    \/ Reset
    \/ ChatReset
    \/ LoadNextBlock
    \/ SubmitAnswer
    \/ SkipQuestion
    \/ RequestAdvance

Spec == Init /\ [][Next]_vars

TypeOK ==
    /\ user_progress # None =>
          \A i \in 1..Len(user_progress.pending_questions) :
              user_progress.pending_questions[i].status
                  \in {"open", "answered", "skipped"}
    /\ Len(company_memory) <= MaxRecords

(***************************************************************************)
(* commit called on its own                                                *)
(***************************************************************************)

\* commit(learner): commit_decision called directly on the stored state; the
\* request records what the operation before it was and whether it committed
Commit ==
    LET r == commit_decision(user_progress, company_memory)
    IN  /\ Step
        /\ Len(r.memory) <= MaxDecisions
        /\ user_progress' = r.row
        /\ company_memory' = r.memory
        /\ resp' = [EmptyResp EXCEPT
              !.op = "commit",
              !.type = "commit",
              !.request = [prev_op |-> resp.op, prev_saved |-> resp.memory_saved],
              !.memory_saved = r.committed]
        /\ answered_since' = IF r.committed THEN {} ELSE answered_since
        /\ UNCHANGED <<course, FORCE_FALLBACK_QUESTIONS, skipped_since>>

NextCommit ==
    \/ LoadNextBlock
    \/ SubmitAnswer
    \/ Commit

SpecCommit == Init /\ [][NextCommit]_vars

(***************************************************************************)
(* The block loader over a family of courses                               *)
(***************************************************************************)

\* most units of a lecture in the family
MaxUnits == 6

\* units a lecture file can chunk into: none (an empty file), one, a full
\* block, more than a block
UnitCounts == {0, 1, BlockLimit, MaxUnits}

\* a case study, then three methodology lectures of n1, n2 and n3 units
CourseOf(n1, n2, n3) ==
    [lectures |-> {Lecture("case-1", 1, 1, 1, "case_study"),
                   Lecture("meth-1", 1, 1, 2, "methodology"),
                   Lecture("meth-2", 1, 2, 1, "methodology"),
                   Lecture("meth-3", 2, 1, 1, "methodology")},
     chunks |-> ChunksOf("case-1", "case_study", 2, FALSE)
                \cup ChunksOf("meth-1", "methodology", n1, FALSE)
                \cup ChunksOf("meth-2", "methodology", n2, FALSE)
                \cup ChunksOf("meth-3", "methodology", n3, FALSE)]

CourseFamily ==
    {CourseOf(n1, n2, n3) : n1 \in UnitCounts, n2 \in UnitCounts, n3 \in UnitCounts}

InitNextBlock ==
    /\ course \in CourseFamily
    /\ FORCE_FALLBACK_QUESTIONS = TRUE
    /\ user_progress = None
    /\ company_memory = <<>>
    /\ resp = EmptyResp
    /\ answered_since = {}
    /\ skipped_since = {}
    /\ steps = 0
    /\ inflight = NoRequests

NextNextBlock ==
    \/ Reset
    \/ ChatReset
    \/ LoadNextBlock

SpecNextBlock == InitNextBlock /\ [][NextNextBlock]_vars

(***************************************************************************)
(* Replies longer than the draft keeps                                     *)
(***************************************************************************)

\* submit_answer with the long reply
SubmitLongAnswer == SubmitAnswerOf({ReplyLong})

NextDraft ==
    \/ LoadNextBlock
    \/ SubmitAnswer
    \/ SubmitLongAnswer
    \/ SkipQuestion
    \/ Reset

SpecDraft == Init /\ [][NextDraft]_vars

(***************************************************************************)
(* Question lists with a repeated id                                       *)
(***************************************************************************)

\* load_next_block where the model's list repeats an id
LoadRepeatedIds ==
    LoadNextBlockOf({[kind |-> "list", items |-> RepeatedIdQuestions]})

NextSkip ==
    \/ LoadNextBlock
    \/ LoadRepeatedIds
    \/ SubmitAnswer
    \/ SkipQuestion

SpecSkip == Init /\ [][NextSkip]_vars

(***************************************************************************)
(* Refining a decision                                                     *)
(***************************************************************************)

\* faulty variant of refine_decision: the status of the old record is not checked (used to test that the properties can fail)
refine_decision_unchecked(memory, decision_id, updated_decision, embed_ok) ==
    IF decision_id \notin 1..Len(memory)
    THEN [memory |-> memory, success |-> FALSE]
    ELSE LET old_decision == memory[decision_id]
             marked == [memory EXCEPT ![decision_id].status = "superseded"]
             new_record ==
                 [id |-> Len(memory) + 1,
                  status |-> "active",
                  related_module |-> old_decision.related_module,
                  related_day |-> old_decision.related_day,
                  related_lecture_id |-> old_decision.related_lecture_id,
                  related_topic |-> old_decision.related_topic,
                  user_decision_raw |-> updated_decision,
                  user_decision_normalized |-> updated_decision]
         IN  IF ~embed_ok THEN [memory |-> marked, success |-> FALSE]
             ELSE [memory |-> Append(marked, new_record), success |-> TRUE]

\* faulty variant of refine_decision: the old record's topic is overwritten as well (used to test that the properties can fail)
refine_decision_rewrites_old(memory, decision_id, updated_decision, embed_ok) ==
    IF decision_id \notin 1..Len(memory)
    THEN [memory |-> memory, success |-> FALSE]
    ELSE IF memory[decision_id].status = "superseded"
    THEN [memory |-> memory, success |-> FALSE]
    ELSE LET old_decision == memory[decision_id]
             marked == [memory EXCEPT
                           ![decision_id].status = "superseded",
                           ![decision_id].related_topic = "superseded"]
             new_record ==
                 [id |-> Len(memory) + 1,
                  status |-> "active",
                  related_module |-> old_decision.related_module,
                  related_day |-> old_decision.related_day,
                  related_lecture_id |-> old_decision.related_lecture_id,
                  related_topic |-> old_decision.related_topic,
                  user_decision_raw |-> updated_decision,
                  user_decision_normalized |-> updated_decision]
         IN  IF ~embed_ok THEN [memory |-> marked, success |-> FALSE]
             ELSE [memory |-> Append(marked, new_record), success |-> TRUE]

\* refine_decision: the table it leaves and whether it returned success;
\* embed_ok = embed_query returned an embedding (it raises otherwise, after
\* the old record was marked)
refine_decision(memory, decision_id, updated_decision, embed_ok) ==
    IF decision_id \notin 1..Len(memory)
    THEN [memory |-> memory, success |-> FALSE]
    ELSE IF memory[decision_id].status = "superseded"
    THEN [memory |-> memory, success |-> FALSE]
    ELSE LET old_decision == memory[decision_id]
             marked == [memory EXCEPT ![decision_id].status = "superseded"]
             new_record ==
                 [id |-> Len(memory) + 1,
                  status |-> "active",
                  related_module |-> old_decision.related_module,
                  related_day |-> old_decision.related_day,
                  related_lecture_id |-> old_decision.related_lecture_id,
                  related_topic |-> old_decision.related_topic,
                  user_decision_raw |-> updated_decision,
                  user_decision_normalized |-> updated_decision]
         IN  IF ~embed_ok THEN [memory |-> marked, success |-> FALSE]
             ELSE [memory |-> Append(marked, new_record), success |-> TRUE]

\* "v2", "v3": texts a decision is refined to
RefineTexts == {<<"v", "2">>, <<"v", "3">>}

\* refine(decision, text): "/decisions/refine"; id 0 names no record
Refine ==
    \E decision_id \in 0..Len(company_memory), updated_decision \in RefineTexts,
       embed_ok \in BOOLEAN :
        LET r == refine_decision(company_memory, decision_id, updated_decision,
                                 embed_ok)
        IN  /\ Step
            /\ Len(r.memory) <= MaxRecords
            /\ company_memory' = r.memory
            /\ resp' = [EmptyResp EXCEPT
                  !.op = "refine",
                  !.type = IF r.success THEN "refined" ELSE "error",
                  !.request = [decision_id |-> decision_id,
                               updated_decision |-> updated_decision]]
            /\ UNCHANGED <<course, FORCE_FALLBACK_QUESTIONS, user_progress,
                           answered_since, skipped_since>>

NextRefine ==
    \/ LoadNextBlock
    \/ SubmitAnswer
    \/ Refine

SpecRefine == Init /\ [][NextRefine]_vars

(***************************************************************************)
(* Conflict candidates of a block                                          *)
(***************************************************************************)

\* similarity > 0.5, similarities counted in tenths
ConflictThreshold == 5

\* detect_conflicts(block_text, user_id, limit=5)
ConflictLimit == 5

\* similarities the search can report for a record: below the threshold, at
\* it and two above it (0.4, 0.5, 0.6, 0.7)
SimilarityValues == {4, 5, 6, 7}

\* most decisions stored before the run
MaxStored == 6

\* the rpc "match_company_memory": the match_count records nearest to the
\* query, nearest first (records of equal similarity in insertion order), each
\* with its similarity
match_company_memory(memory, similarity, match_count) ==
    LET n == Len(memory)
        rank(i) == Cardinality({j \in 1..n :
                      \/ similarity[j] > similarity[i]
                      \/ similarity[j] = similarity[i] /\ j < i})
    IN  [k \in 1..Min(n, match_count) |->
            LET i == CHOOSE i \in 1..n : rank(i) = k - 1
            IN  [id |-> memory[i].id,
                 related_topic |-> memory[i].related_topic,
                 user_decision_normalized |-> memory[i].user_decision_normalized,
                 similarity |-> similarity[i]]]

\* the candidate detect_conflicts builds from a search result
ConflictCandidate(d) ==
    [decision_id |-> d.id, topic |-> d.related_topic,
     user_decision |-> d.user_decision_normalized, similarity |-> d.similarity]

\* faulty variant of detect_conflicts: a result at the threshold is kept (used to test that the properties can fail)
detect_conflicts_inclusive(memory, similarity, limit) ==
    LET decisions == match_company_memory(memory, similarity, limit)
        kept == SelectSeq(decisions,
                    LAMBDA d : d.similarity >= ConflictThreshold)
    IN  [i \in 1..Len(kept) |-> ConflictCandidate(kept[i])]

\* detect_conflicts: the candidates it returns
detect_conflicts(memory, similarity, limit) ==
    LET decisions == match_company_memory(memory, similarity, limit)
        kept == SelectSeq(decisions,
                    LAMBDA d : d.similarity > ConflictThreshold)
    IN  [i \in 1..Len(kept) |-> ConflictCandidate(kept[i])]

\* a decision stored before the run
StoredDecision(i) ==
    [id |-> i, status |-> "active", related_module |-> 1, related_day |-> 1,
     related_lecture_id |-> "meth-1", related_topic |-> "meth-1",
     user_decision_raw |-> <<"v", "2">>,
     user_decision_normalized |-> <<"v", "2">>]

\* a course of one case study and one methodology lecture of a single block
ShortCourse ==
    [lectures |-> {Lecture("case-1", 1, 1, 1, "case_study"),
                   Lecture("meth-1", 1, 1, 2, "methodology")},
     chunks |-> ChunksOf("case-1", "case_study", 2, FALSE)
                \cup ChunksOf("meth-1", "methodology", 2, FALSE)]

\* a learner with no row and up to MaxStored decisions
InitConflicts ==
    /\ course = ShortCourse
    /\ FORCE_FALLBACK_QUESTIONS = TRUE
    /\ user_progress = None
    /\ company_memory \in {[i \in 1..n |-> StoredDecision(i)] : n \in 0..MaxStored}
    /\ resp = EmptyResp
    /\ answered_since = {}
    /\ skipped_since = {}
    /\ steps = 0
    /\ inflight = NoRequests

\* load_next_block with the conflict candidates of the block in the response
\* (sources.conflicts); the request records the similarities the search saw,
\* none when the course is completed and no search is made
LoadWithConflicts ==
    LET r == study_next(course, FORCE_FALLBACK_QUESTIONS, user_progress,
                        [kind |-> "no_block", items |-> <<>>])
    IN  /\ Step
        /\ user_progress' = r.row
        /\ IF r.result.type = "block"
           THEN \E similarity \in [1..Len(company_memory) -> SimilarityValues] :
                   resp' = [r.result EXCEPT
                      !.op = "load_next_block",
                      !.request = [similarity |-> similarity],
                      !.conflicts = detect_conflicts(company_memory, similarity,
                                                     ConflictLimit)]
           ELSE resp' = [r.result EXCEPT
                   !.op = "load_next_block",
                   !.request = [similarity |-> <<>>]]
        /\ answered_since' = {}
        /\ skipped_since' = {}
        /\ UNCHANGED <<course, FORCE_FALLBACK_QUESTIONS, company_memory>>

NextConflicts == LoadWithConflicts

SpecConflicts == InitConflicts /\ [][NextConflicts]_vars

(***************************************************************************)
(* Two load_next_block requests served at the same time                    *)
(***************************************************************************)

\* the slot of request i moves to pc with the given fields changed
Moved(i, pc, changes) ==
    [inflight EXCEPT ![i] =
        [f \in DOMAIN inflight[i] |->
            IF f = "pc" THEN pc
            ELSE IF f \in DOMAIN changes THEN changes[f]
            ELSE inflight[i][f]]]

\* study_next, "progress = get_user_progress(user_id)": a request enters a
\* free slot and reads the learner's row
LoadRead(i) ==
    /\ inflight[i].pc \in {"idle", "done"}
    /\ steps < MaxSteps
    /\ steps' = steps + 1
    /\ inflight' = [inflight EXCEPT ![i] =
          [IdleRequest EXCEPT
              !.pc = IF user_progress = None THEN "reset" ELSE "clear",
              !.progress = user_progress]]
    /\ UNCHANGED <<course, FORCE_FALLBACK_QUESTIONS, user_progress,
                   company_memory, resp, answered_since, skipped_since>>

\* "if not progress: progress = reset_progress(user_id)"
LoadReset(i) ==
    /\ inflight[i].pc = "reset"
    /\ user_progress' = reset_progress(course, user_progress)
    /\ inflight' = Moved(i, "clear", [progress |-> ResetValues(course)])
    /\ UNCHANGED <<course, FORCE_FALLBACK_QUESTIONS, company_memory, resp,
                   answered_since, skipped_since, steps>>

\* clear_pending_questions, then get_next_methodology_chunks(progress) on the
\* progress the request read; with no chunk the request returns completed
LoadClear(i) ==
    LET chunks == get_next_methodology_chunks(course, inflight[i].progress,
                                              BlockLimit)
    IN  /\ inflight[i].pc = "clear"
        /\ user_progress' = clear_pending_questions(user_progress)
        /\ IF chunks = <<>>
           THEN /\ inflight' = Moved(i, "done", [result |-> "completed"])
                /\ resp' = [EmptyResp EXCEPT !.op = "load_next_block",
                                             !.type = "completed"]
           ELSE /\ inflight' = Moved(i, "save", [chunks |-> chunks])
                /\ resp' = resp
        /\ answered_since' = {}
        /\ skipped_since' = {}
        /\ UNCHANGED <<course, FORCE_FALLBACK_QUESTIONS, company_memory, steps>>

\* the model's reply is parsed and save_pending_questions_with_block writes
\* the questions and the block identity
LoadSave(i) ==
    \E llm \in StudyOutputs :
        LET chunks == inflight[i].chunks
            parsed == IF FORCE_FALLBACK_QUESTIONS THEN <<>>
                      ELSE parse_pending_questions(llm)
            pending == IF parsed = <<>> THEN generate_fallback_questions
                       ELSE parsed
        IN  /\ inflight[i].pc = "save"
            /\ user_progress' = save_pending_questions_with_block(
                  user_progress, pending, compute_block_id(chunks))
            /\ inflight' = Moved(i, "update", [result |-> NoneStr])
            /\ UNCHANGED <<course, FORCE_FALLBACK_QUESTIONS, company_memory,
                           resp, answered_since, skipped_since, steps>>

\* update_progress(user_id, last_chunk["lecture_id"], last_chunk["sequence_order"])
LoadUpdate(i) ==
    LET chunks == inflight[i].chunks
        last_chunk == chunks[Len(chunks)]
    IN  /\ inflight[i].pc = "update"
        /\ user_progress' = update_progress(course, user_progress,
              last_chunk.lecture_id, last_chunk.sequence_order)
        /\ inflight' = Moved(i, "respond", [result |-> NoneStr])
        /\ UNCHANGED <<course, FORCE_FALLBACK_QUESTIONS, company_memory, resp,
                       answered_since, skipped_since, steps>>

\* the reads for the response and the return
LoadRespond(i) ==
    /\ inflight[i].pc = "respond"
    /\ inflight' = Moved(i, "done", [result |-> "block"])
    /\ resp' = [EmptyResp EXCEPT
          !.op = "load_next_block",
          !.type = "block",
          !.chunks = inflight[i].chunks,
          !.current_question = get_current_question(user_progress),
          !.questions_stats = get_questions_stats(user_progress),
          !.block_id = compute_block_id(inflight[i].chunks)]
    /\ UNCHANGED <<course, FORCE_FALLBACK_QUESTIONS, user_progress,
                   company_memory, answered_since, skipped_since, steps>>

NextConcurrentLoad ==
    \/ \E i \in Requests : LoadRead(i)
    \/ \E i \in Requests : LoadReset(i)
    \/ \E i \in Requests : LoadClear(i)
    \/ \E i \in Requests : LoadSave(i)
    \/ \E i \in Requests : LoadUpdate(i)
    \/ \E i \in Requests : LoadRespond(i)

SpecConcurrentLoad == Init /\ [][NextConcurrentLoad]_vars

(***************************************************************************)
(* A commit that meets a collaborator failure                              *)
(***************************************************************************)

\* submit_answer whose commit raises: the endpoint answers 500, retryable
SubmitAnswerFailing ==
    \E answer \in Replies, analysis \in Analyses, fail \in CommitFailures :
        LET topic == IF user_progress = None THEN ""
                     ELSE user_progress.current_lecture_id
            r == process_user_answer_failing(user_progress, company_memory,
                                             answer, analysis, topic, fail)
        IN  /\ Step
            /\ r.failed
            /\ Len(r.memory) <= MaxDecisions
            /\ user_progress' = r.row
            /\ company_memory' = r.memory
            /\ resp' = [r.result EXCEPT
                  !.op = "submit_answer",
                  !.request = [answer |-> answer, analysis |-> analysis,
                               fail |-> fail]]
            /\ answered_since' = answered_since \cup r.marked
            /\ UNCHANGED <<course, FORCE_FALLBACK_QUESTIONS, skipped_since>>

NextCommitFailure ==
    \/ LoadNextBlock
    \/ SubmitAnswer
    \/ SubmitAnswerFailing

SpecCommitFailure == Init /\ [][NextCommitFailure]_vars

(***************************************************************************)
(* Two submit_answer requests served at the same time                      *)
(***************************************************************************)

\* the other request slot
Other(i) == CHOOSE j \in Requests : j # i

\* process_user_answer up to "all_closed = all_questions_closed(user_id)": a
\* request enters a free slot, the reply is classified and the draft entries
\* and marks are written
AnswerMark(i) ==
    \E answer \in Replies, analysis \in Analyses :
        LET topic == IF user_progress = None THEN ""
                     ELSE user_progress.current_lecture_id
        IN  /\ inflight[i].pc \in {"idle", "done"}
            /\ steps < MaxSteps
            /\ steps' = steps + 1
            /\ user_progress' = process_user_answer_marks(user_progress, answer,
                                                          analysis, topic)
            /\ inflight' = [inflight EXCEPT ![i] =
                  [IdleRequest EXCEPT !.pc = "check"]]
            /\ UNCHANGED <<course, FORCE_FALLBACK_QUESTIONS, company_memory,
                           resp, answered_since, skipped_since>>

\* "if all_closed and get_draft_decision(user_id):"
AnswerCheck(i) ==
    LET closed == /\ all_questions_closed(user_progress)
                  /\ get_draft_decision(user_progress) # None
    IN  /\ inflight[i].pc = "check"
        /\ inflight' = Moved(i, IF closed THEN "commit" ELSE "respond",
                             [closed |-> closed])
        /\ UNCHANGED <<course, FORCE_FALLBACK_QUESTIONS, user_progress,
                       company_memory, resp, answered_since, skipped_since,
                       steps>>

\* commit_decision, the reads: the draft and the row; overlap = the other
\* request holds the same draft, read and not yet cleared
AnswerReadDraft(i) ==
    LET draft == get_draft_decision(user_progress)
        j == Other(i)
    IN  /\ inflight[i].pc = "commit"
        /\ IF draft = None \/ draft.answers = <<>>
           THEN inflight' = Moved(i, "respond", [draft |-> None])
           ELSE inflight' = Moved(i, "insert",
                   [draft |-> draft,
                    progress |-> user_progress,
                    overlap |-> /\ inflight[j].pc \in {"insert", "clear"}
                                /\ inflight[j].draft = draft])
        /\ UNCHANGED <<course, FORCE_FALLBACK_QUESTIONS, user_progress,
                       company_memory, resp, answered_since, skipped_since,
                       steps>>

\* save_memory: the insert into company_memory
AnswerInsert(i) ==
    /\ inflight[i].pc = "insert"
    /\ Len(company_memory) < MaxDecisions
    /\ company_memory' = Append(company_memory,
          DecisionRecord(Len(company_memory) + 1, inflight[i].progress,
                         inflight[i].draft))
    /\ inflight' = Moved(i, "clear", [inserted |-> 1])
    /\ UNCHANGED <<course, FORCE_FALLBACK_QUESTIONS, user_progress, resp,
                   answered_since, skipped_since, steps>>

\* the update that clears the draft
AnswerClearDraft(i) ==
    /\ inflight[i].pc = "clear"
    /\ user_progress' = Update(user_progress, [draft_decision |-> None])
    /\ inflight' = Moved(i, "respond", [result |-> NoneStr])
    /\ answered_since' = {}
    /\ UNCHANGED <<course, FORCE_FALLBACK_QUESTIONS, company_memory, resp,
                   skipped_since, steps>>

\* the reads for the response and the return
AnswerRespond(i) ==
    /\ inflight[i].pc = "respond"
    /\ inflight' = Moved(i, "done", [result |-> "answer"])
    /\ resp' = [EmptyResp EXCEPT
          !.op = "submit_answer",
          !.type = "answer",
          !.memory_saved = (inflight[i].inserted = 1),
          !.current_question = get_current_question(user_progress),
          !.questions_stats = get_questions_stats(user_progress),
          !.all_closed = inflight[i].closed,
          !.can_continue = inflight[i].closed]
    /\ UNCHANGED <<course, FORCE_FALLBACK_QUESTIONS, user_progress,
                   company_memory, answered_since, skipped_since, steps>>

NextConcurrentAnswer ==
    \/ LoadNextBlock
    \/ \E i \in Requests : AnswerMark(i)
    \/ \E i \in Requests : AnswerCheck(i)
    \/ \E i \in Requests : AnswerReadDraft(i)
    \/ \E i \in Requests : AnswerInsert(i)
    \/ \E i \in Requests : AnswerClearDraft(i)
    \/ \E i \in Requests : AnswerRespond(i)

SpecConcurrentAnswer == Init /\ [][NextConcurrentAnswer]_vars

(***************************************************************************)
(* A learner who works through the whole course                            *)
(***************************************************************************)

\* a request that the step counter does not count
Uncounted == steps' = steps /\ inflight' = inflight

\* what the model returns for a block, kept to the lists whose questions the
\* replies and skip queries above can close
LearnerOutputs == StudyOutputs \ {[kind |-> "list", items |-> FiveQuestions]}

\* the course of the other runs, and the courses whose lectures are a single
\* unit or an empty file
LearnerCourses ==
    Courses \cup {CourseOf(n1, n2, n3) : n1 \in {0, 1}, n2 \in {0, 1}, n3 \in {0, 1}}

\* the reply the learner answers a question with
LearnerReplies == {ReplyFormula}

InitLearner ==
    /\ course \in LearnerCourses
    /\ FORCE_FALLBACK_QUESTIONS \in BOOLEAN
    /\ user_progress = None
    /\ company_memory = <<>>
    /\ resp = EmptyResp
    /\ answered_since = {}
    /\ skipped_since = {}
    /\ steps = 0
    /\ inflight = NoRequests

\* the learner closes at least one open question of the block, by an answer or
\* by a skip; a course of n units commits at most n decisions
LearnerCloses ==
    /\ HasOpen(get_pending_questions(user_progress))
    /\ \/ SubmitAnswerWith(Uncounted, LearnerReplies, Cardinality(course.chunks))
       \/ SkipQuestionWith(Uncounted)
    /\ Len(get_open_questions(user_progress'))
          < Len(get_open_questions(user_progress))

\* with every question closed the learner asks for the next block in the chat
LearnerAdvances ==
    /\ ~HasOpen(get_pending_questions(user_progress))
    /\ RequestAdvanceWith(Uncounted, LearnerOutputs)

\* with every question closed the learner asks for the next block directly
LearnerLoads ==
    /\ ~HasOpen(get_pending_questions(user_progress))
    /\ LoadNextBlockWith(Uncounted, LearnerOutputs)

NextLearner ==
    \/ LearnerCloses
    \/ LearnerAdvances
    \/ LearnerLoads

\* the learner keeps sending requests, and every request is served
SpecLearner == InitLearner /\ [][NextLearner]_vars /\ WF_vars(NextLearner)

(***************************************************************************)
(* Properties                                                              *)
(***************************************************************************)

\* the stored pending-question set
PQ == IF user_progress = None THEN <<>> ELSE user_progress.pending_questions

\* the stored block identity
BlockId == IF user_progress = None THEN None ELSE user_progress.pending_block_id

\* the stored draft
Draft == IF user_progress = None THEN None ELSE user_progress.draft_decision

\* the entries of a draft
EntriesOf(draft) ==
    IF draft = None THEN {}
    ELSE {draft.answers[k] : k \in 1..Len(draft.answers)}

\* the open question with the least index
FirstOpen(qs) ==
    qs[CHOOSE i \in 1..Len(qs) :
          /\ qs[i].status = "open"
          /\ \A j \in 1..(i - 1) : qs[j].status # "open"]

\* a quantitative question: its id contains "roi"
IsRoiQuestion(q) == Contains(Lower(q.id), ID_roi)

\* the operations of the study protocol
StudyOps ==
    {"load_next_block", "submit_answer", "skip_question", "request_advance",
     "reset"}

\* C1: with a block identity and a lecture reference stored and a question
\* open, request_advance answers gate_blocked, names the first open question
\* in stored order and changes nothing of the learner's row or the decisions.
C1_GateBlockedKeepsState ==
    [][(/\ resp'.op = "request_advance"
        /\ user_progress # None
        /\ user_progress.pending_block_id # None
        /\ user_progress.current_lecture_id # NoneStr
        /\ HasOpen(PQ))
       => (/\ resp'.type = "gate_blocked"
           /\ resp'.current_question = FirstOpen(PQ)
           /\ user_progress' = user_progress
           /\ company_memory' = company_memory)]_vars

\* a gate-blocked advance whose first stored question is closed already
C1_Witness ==
    /\ resp.op = "request_advance"
    /\ resp.type = "gate_blocked"
    /\ PQ[1].status # "open"
    /\ resp.current_question.status = "open"

\* C2: a step of the study operations that inserts a decision is a
\* submit_answer, inserts exactly one, leaves no stored question open, and the
\* decision carries at least one recorded answer of the draft.
C2_CommitOnlyWhenClosed ==
    [][(/\ resp'.op \in StudyOps
        /\ Len(company_memory') # Len(company_memory))
       => (/\ resp'.op = "submit_answer"
           /\ Len(company_memory') = Len(company_memory) + 1
           /\ ~HasOpen(PQ')
           /\ Draft # None \/ resp'.request.analysis # None
           /\ Len(company_memory'[Len(company_memory')].user_decision_raw) >= 1)]_vars

\* a submit_answer that committed a decision for a stored, fully closed set
C2_Witness ==
    /\ resp.op = "submit_answer"
    /\ resp.memory_saved
    /\ company_memory # <<>>
    /\ PQ # <<>>
    /\ \E i \in 1..Len(PQ) : PQ[i].status = "answered"

\* C3 as stated: right after a commit returned a decision there is no draft
\* and the stored pending-question set is empty.
C3_CommitClearsDraftAndQuestions ==
    (resp.op = "submit_answer" /\ resp.memory_saved)
        => (Draft = None /\ PQ = <<>>)

\* C3 amended: a commit that returns a decision clears the draft and keeps the
\* stored question set and block identity, every question in it closed.
C3_CommitClearsDraftOnly ==
    [][(resp'.op = "submit_answer" /\ resp'.memory_saved)
       => (/\ Draft' = None
           /\ BlockId' = BlockId
           /\ Len(PQ') = Len(PQ)
           /\ \A i \in 1..Len(PQ) :
                 PQ'[i].id = PQ[i].id /\ PQ'[i].status # "open")]_vars

\* a commit with the block's questions and block identity still stored
C3_Witness ==
    /\ resp.op = "submit_answer"
    /\ resp.memory_saved
    /\ Draft = None
    /\ BlockId # None
    /\ Len(PQ) >= 3

\* C4: after reset the row points at the first methodology lecture with the
\* cursor at 0, and holds no pending question, no block identity, no draft.
C4_ResetClearsGateAndDraft ==
    resp.op = "reset"
        => (/\ user_progress # None
            /\ user_progress.current_lecture_id
                   = FirstLectureId(MethodologyLectures(course))
            /\ user_progress.current_sequence_order = 0
            /\ PQ = <<>>
            /\ BlockId = None
            /\ Draft = None)

\* C5: the request_advance that follows a reset is not gate-blocked.
C5_AdvanceAfterResetNotBlocked ==
    [][(resp.op = "reset" /\ resp'.op = "request_advance")
       => resp'.type # "gate_blocked"]_vars

\* C6: submit_answer and skip_question leave an answered question answered
\* with its recorded text, and a skipped question skipped.
C6_TransitionsOnlyFromOpen ==
    [][(resp'.op \in {"submit_answer", "skip_question"})
       => (/\ Len(PQ') = Len(PQ)
           /\ \A i \in 1..Len(PQ) :
                 /\ PQ[i].status = "answered"
                       => (/\ PQ'[i].status = "answered"
                           /\ PQ'[i].user_answer = PQ[i].user_answer)
                 /\ PQ[i].status = "skipped" => PQ'[i].status = "skipped")]_vars

\* C7: while one block's set is stored (submit_answer, skip_question, a
\* gate-blocked request_advance), the set keeps its questions and a question
\* that is answered or skipped is not open afterwards.
C7_NeverReopened ==
    [][(\/ resp'.op \in {"submit_answer", "skip_question"}
        \/ resp'.op = "request_advance" /\ resp'.type = "gate_blocked")
       => (/\ Len(PQ') = Len(PQ)
           /\ \A i \in 1..Len(PQ) :
                 /\ PQ'[i].id = PQ[i].id
                 /\ PQ[i].status # "open" => PQ'[i].status # "open")]_vars

\* a submit_answer served while a question skipped by an earlier
\* skip_question is stored
C7_Witness ==
    /\ resp.op = "submit_answer"
    /\ resp.request.analysis # None
    /\ \E i \in 1..Len(PQ) : PQ[i].id = ID_data /\ PQ[i].status = "skipped"

\* the first half of C8: without an ROI signal in the reply an open ROI
\* question is not answered afterwards and gets no draft entry
RoiKeptOpen(i) ==
    ~RoiSignal[resp'.request.answer]
        => (/\ PQ'[i].status # "answered"
            /\ \A e \in EntriesOf(Draft') :
                  e.question_id = PQ[i].id => e \in EntriesOf(Draft))

\* the reply carries an ROI signal and the model lists question i as answered
RoiListedWithSignal(i) ==
    /\ RoiSignal[resp'.request.answer]
    /\ resp'.request.analysis # None
    /\ InList(PQ[i].id, resp'.request.analysis.answered)

ParseFailure == resp'.op = "submit_answer" /\ resp'.request.analysis = None

\* C9 as stated: on a parse failure nothing changes and all_closed and
\* can_continue are false, whatever the stored set.
C9_ParseFailureAsStated ==
    [][ParseFailure
       => (/\ PQ' = PQ
           /\ Draft' = Draft
           /\ company_memory' = company_memory
           /\ ~resp'.all_closed
           /\ ~resp'.can_continue)]_vars

\* C9 amended: on a parse failure no question changes and no draft entry is
\* written; all_closed and can_continue are false exactly when a stored
\* question is open; with an empty or fully closed set they are true and a
\* draft that is present is committed.
C9_ParseFailure ==
    [][ParseFailure
       => (/\ PQ' = PQ
           /\ resp'.all_closed = ~HasOpen(PQ)
           /\ resp'.can_continue = resp'.all_closed
           /\ IF ~HasOpen(PQ) /\ Draft # None
              THEN /\ Draft' = None
                   /\ Len(company_memory') = Len(company_memory) + 1
                   /\ company_memory'[Len(company_memory')].user_decision_raw
                         = Draft.answers
                   /\ resp'.memory_saved
              ELSE /\ user_progress' = user_progress
                   /\ company_memory' = company_memory
                   /\ ~resp'.memory_saved)]_vars

\* a parse failure met with a question open and a draft present
C9_Witness ==
    /\ resp.op = "submit_answer"
    /\ resp.request.analysis = None
    /\ HasOpen(PQ)
    /\ Draft # None
    /\ ~resp.all_closed

\* C10: a draft is present only if a question of the stored set was marked
\* answered since the last commit or clear, every id in the draft is the id of
\* such a question, and right after a commit there is no draft.
C10_DraftOnlyFromAnswered ==
    /\ Draft # None
          => (/\ answered_since # {}
              /\ \A e \in EntriesOf(Draft) :
                    /\ e.question_id \in answered_since
                    /\ \E i \in 1..Len(PQ) : PQ[i].id = e.question_id)
    /\ (resp.op = "submit_answer" /\ resp.memory_saved) => Draft = None

\* C11: commit inserts one decision when it returns one and none otherwise;
\* a commit that directly follows a commit returns null and changes neither
\* the decisions nor the learner's row.
C11_SecondCommitIsNoOp ==
    [][resp'.op = "commit"
       => (/\ IF resp'.memory_saved
              THEN Len(company_memory') = Len(company_memory) + 1
              ELSE company_memory' = company_memory
           /\ resp.op = "commit"
                 => (/\ ~resp'.memory_saved
                     /\ company_memory' = company_memory
                     /\ user_progress' = user_progress))]_vars

\* a commit that returned null right after a commit that inserted a decision
C11_Witness ==
    /\ resp.op = "commit"
    /\ resp.request.prev_op = "commit"
    /\ resp.request.prev_saved
    /\ ~resp.memory_saved
    /\ Len(company_memory) = 1

\* a step that served a block
BlockServed ==
    /\ resp'.op \in {"load_next_block", "request_advance"}
    /\ resp'.type = "block"

\* C12: after a step that served a block the stored set is not empty, every
\* question in it is open with no recorded answer, and the stored block
\* identity names the block's lecture and its first and last sequence numbers.
C12_ServedBlockHasOpenQuestions ==
    [][BlockServed
       => (/\ PQ' # <<>>
           /\ \A i \in 1..Len(PQ') :
                 PQ'[i].status = "open" /\ PQ'[i].user_answer = None
           /\ BlockId' = <<resp'.chunks[1].lecture_id,
                           resp'.chunks[1].sequence_order,
                           resp'.chunks[Len(resp'.chunks)].sequence_order>>)]_vars

\* a block served with the fallback questions though the flag that forces
\* them is off: the model's output gave no question
C12_Witness ==
    /\ resp.op = "load_next_block"
    /\ resp.type = "block"
    /\ ~FORCE_FALLBACK_QUESTIONS
    /\ resp.fallback_used
    /\ Len(PQ) = Len(FALLBACK_QUESTIONS)
    /\ BlockId = resp.block_id

\* C13: the stored pending-question set never holds more than 4 questions.
C13_AtMostFourQuestions == Len(PQ) <= 4

\* the learner's lecture reference, NoneStr when there is none
LectureRef ==
    IF user_progress = None THEN NoneStr ELSE user_progress.current_lecture_id

\* C14: with no block identity stored or no lecture reference, request_advance
\* is not gate-blocked; it loads the next block, and afterwards the stored set
\* is the new block's set under the new block's identity, every question open
\* and without answer, or nothing is stored when the course is complete.
C14_StaleGateBypassed ==
    [][(/\ resp'.op = "request_advance"
        /\ BlockId = None \/ LectureRef = NoneStr)
       => (/\ resp'.type \in {"block", "completed"}
           /\ IF resp'.type = "block"
              THEN /\ resp'.chunks # <<>>
                   /\ BlockId' = resp'.block_id
                   /\ \A i \in 1..Len(PQ') :
                         PQ'[i].status = "open" /\ PQ'[i].user_answer = None
              ELSE PQ' = <<>> /\ BlockId' = None)]_vars

\* a request_advance that served a block although questions of an earlier
\* block were open: a block identity was stored, the lecture reference was not
C14_Witness ==
    /\ resp.op = "request_advance"
    /\ resp.type = "block"
    /\ resp.request.had_block_id
    /\ ~resp.request.had_lecture
    /\ resp.request.had_open

\* C15: after a step that served a block the learner's lecture reference is
\* the lecture of the block's units and the sequence cursor is the sequence
\* number of the block's last unit.
C15_CursorAtLastUnit ==
    [][BlockServed
       => (/\ \A i \in 1..Len(resp'.chunks) :
                 resp'.chunks[i].lecture_id = user_progress'.current_lecture_id
           /\ user_progress'.current_sequence_order
                 = resp'.chunks[Len(resp'.chunks)].sequence_order)]_vars

\* a second block loaded straight after the first, its questions all open; the
\* block's last unit is a student comment and the cursor stands on it
C15_Witness ==
    /\ steps = 2
    /\ resp.op = "load_next_block"
    /\ resp.type = "block"
    /\ resp.chunks[Len(resp.chunks)].content_type = "student_comment"
    /\ user_progress.current_sequence_order = FirstLectureUnits

\* the cursor load_next_block starts from: the row's, or the one reset_progress
\* creates when there is no row
CursorOf(row) == IF row = None THEN ResetValues(course) ELSE row

\* units of methodology lectures at or after a cursor that were not served:
\* all of them when there is no lecture reference, else those of the cursor's
\* lecture past the sequence cursor and those of the lectures after it
Unserved(cursor) ==
    {ch \in course.chunks :
        /\ \E l \in MethodologyLectures(course) : l.lecture_id = ch.lecture_id
        /\ \/ cursor.current_lecture_id = NoneStr
           \/ /\ ch.lecture_id = cursor.current_lecture_id
              /\ ch.sequence_order > cursor.current_sequence_order
           \/ \E a \in course.lectures, b \in course.lectures :
                 /\ a.lecture_id = cursor.current_lecture_id
                 /\ b.lecture_id = ch.lecture_id
                 /\ LectureBefore(a, b)}

\* C16: the units load_next_block gets are 1 to 5 units of one methodology
\* lecture in increasing sequence order, or none; they are none only when no
\* methodology lecture at or after the cursor has a unit not yet served.
C16_NextBlock ==
    [][resp'.op = "load_next_block"
       => (/\ Len(resp'.chunks) <= 5
           /\ \A i \in 1..Len(resp'.chunks) :
                 /\ resp'.chunks[i].lecture_id = resp'.chunks[1].lecture_id
                 /\ resp'.chunks[i].speaker_type = "methodology"
                 /\ i > 1 => resp'.chunks[i - 1].sequence_order
                                < resp'.chunks[i].sequence_order
           /\ resp'.chunks = <<>>
                 => Unserved(CursorOf(user_progress)) = {})]_vars

\* the final answered list of the submit_answer just served: the model's
\* list without the ROI ids when the reply carries no ROI signal
FinalAnswered ==
    IF resp'.request.analysis = None THEN <<>>
    ELSE SelectSeq(resp'.request.analysis.answered,
            LAMBDA qid : RoiSignal[resp'.request.answer] \/ ~IsRoiQuestion([id |-> qid]))

\* the draft submit_answer has built: the stored one, or the one it has just
\* committed
DraftBuilt ==
    IF resp'.memory_saved
    THEN [topic |-> company_memory'[Len(company_memory')].related_topic,
          answers |-> company_memory'[Len(company_memory')].user_decision_raw]
    ELSE Draft'

\* the entries of the draft before the step
OldAnswers == IF Draft = None THEN <<>> ELSE Draft.answers

\* the topic the request carries for the block: the learner's lecture reference
RequestTopic ==
    IF LectureRef \in {NoneStr, ""} THEN "Study decision" ELSE LectureRef

\* what C17 says of a submit_answer, for the text the draft is to hold
DraftHolds(text) ==
    IF FinalAnswered = <<>> THEN DraftBuilt = Draft
    ELSE /\ DraftBuilt # None
         /\ DraftBuilt.topic = IF Draft = None THEN RequestTopic ELSE Draft.topic
         /\ \A k \in 1..Len(FinalAnswered) :
               \E n \in 1..Len(DraftBuilt.answers) :
                  DraftBuilt.answers[n]
                     = [question_id |-> FinalAnswered[k], answer |-> text]
         /\ \A m, n \in 1..Len(DraftBuilt.answers) :
               DraftBuilt.answers[m].question_id = DraftBuilt.answers[n].question_id
                  => m = n
         /\ Len(DraftBuilt.answers) >= Len(OldAnswers)
         /\ \A n \in 1..Len(OldAnswers) :
               /\ DraftBuilt.answers[n].question_id = OldAnswers[n].question_id
               /\ ~InList(OldAnswers[n].question_id, FinalAnswered)
                     => DraftBuilt.answers[n] = OldAnswers[n]
         /\ \A n \in (Len(OldAnswers) + 1)..Len(DraftBuilt.answers) :
               InList(DraftBuilt.answers[n].question_id, FinalAnswered)

SkipQuery == Strip(resp'.request.query)

\* question i is open and its id equals the query or its text contains the
\* query, ignoring case
SkipMatches(i) ==
    /\ PQ[i].status = "open"
    /\ \/ Lower(PQ[i].id) = Lower(SkipQuery)
       \/ Contains(Lower(PQ[i].text), Lower(SkipQuery))

\* C18: skip_question sets the matching open questions to skipped and changes
\* no other question, returns the texts of the matching questions, and leaves
\* the draft, the block identity, the cursor and the decisions as they were;
\* when no open question matches it leaves the learner's row as it was and
\* returns no text.
C18_SkipMatchesOnly ==
    [][resp'.op = "skip_question"
       => (/\ Len(PQ') = Len(PQ)
           /\ \A i \in 1..Len(PQ) :
                 PQ'[i] = IF SkipMatches(i)
                          THEN [PQ[i] EXCEPT !.status = "skipped"]
                          ELSE PQ[i]
           /\ Len(resp'.skipped)
                 = Cardinality({i \in 1..Len(PQ) : SkipMatches(i)})
           /\ \A i \in 1..Len(PQ) :
                 SkipMatches(i) => InList(PQ[i].text, resp'.skipped)
           /\ Draft' = Draft
           /\ BlockId' = BlockId
           /\ company_memory' = company_memory
           /\ user_progress # None
                 => /\ user_progress'.current_lecture_id
                          = user_progress.current_lecture_id
                    /\ user_progress'.current_sequence_order
                          = user_progress.current_sequence_order
           /\ (\A i \in 1..Len(PQ) : ~SkipMatches(i))
                 => (user_progress' = user_progress /\ resp'.skipped = <<>>))]_vars

\* the open question of the stored set that is current
CurrentQuestion == get_current_question(user_progress)

\* C19: a question skip_question has skipped since the block was loaded is
\* not the current question, neither in the stored set nor in the response of
\* a submit_answer, a skip_question or a gate-blocked request_advance.
C19_SkippedNeverCurrent ==
    /\ CurrentQuestion # None => CurrentQuestion.id \notin skipped_since
    /\ (/\ resp.op \in {"submit_answer", "skip_question", "request_advance"}
        /\ resp.type \in {"answer", "skip", "gate_blocked"}
        /\ resp.current_question # None)
          => resp.current_question.id \notin skipped_since

\* a gate-blocked request_advance that names the second question: the first
\* of the stored set was skipped by skip_question
C19_Witness ==
    /\ resp.op = "request_advance"
    /\ resp.type = "gate_blocked"
    /\ PQ[1].id \in skipped_since
    /\ PQ[1].status = "skipped"
    /\ resp.current_question = PQ[2]

\* C20: a refine that succeeds found the old record active, changes only its
\* status, to superseded, appends one active record with the old record's
\* topic, lecture, module and day and the new text, and changes no other
\* decision and nothing of the learner's row.
C20_RefineSupersedes ==
    [][(resp'.op = "refine" /\ resp'.type = "refined")
       => LET id == resp'.request.decision_id
              n == Len(company_memory)
          IN  /\ id \in 1..n
              /\ company_memory[id].status = "active"
              /\ Len(company_memory') = n + 1
              /\ company_memory'[id]
                    = [company_memory[id] EXCEPT !.status = "superseded"]
              /\ \A k \in 1..n : k # id => company_memory'[k] = company_memory[k]
              /\ company_memory'[n + 1].status = "active"
              /\ company_memory'[n + 1].related_topic
                    = company_memory[id].related_topic
              /\ company_memory'[n + 1].related_lecture_id
                    = company_memory[id].related_lecture_id
              /\ company_memory'[n + 1].related_module
                    = company_memory[id].related_module
              /\ company_memory'[n + 1].related_day
                    = company_memory[id].related_day
              /\ company_memory'[n + 1].user_decision_raw
                    = resp'.request.updated_decision
              /\ user_progress' = user_progress]_vars

\* the second of two decisions was refined: the first is still active, the
\* second superseded, the third active with the new text
C20_Witness ==
    /\ resp.op = "refine"
    /\ resp.type = "refined"
    /\ resp.request.decision_id = 2
    /\ Len(company_memory) = 3
    /\ company_memory[1].status = "active"
    /\ company_memory[2].status = "superseded"
    /\ company_memory[3].status = "active"
    /\ company_memory[3].user_decision_raw = resp.request.updated_decision

\* the record a refine request names is not an active record of the table
NotActive(decision_id) ==
    \/ decision_id \notin 1..Len(company_memory)
    \/ company_memory[decision_id].status # "active"

\* C21: a refine that names a record that is superseded or not in the table
\* returns a failure and leaves the table as it was; a superseded record is
\* never changed again, and a refine that inserts a record inserts one, for a
\* record that was active and is superseded by this refine (so a record is
\* superseded once and gets at most one successor).
C21_RefineNonActiveFails ==
    [][/\ (resp'.op = "refine" /\ NotActive(resp'.request.decision_id))
             => /\ resp'.type = "error"
                /\ company_memory' = company_memory
       /\ \A k \in 1..Len(company_memory) :
             company_memory[k].status = "superseded"
                => /\ k <= Len(company_memory')
                   /\ company_memory'[k] = company_memory[k]
       /\ (resp'.op = "refine" /\ Len(company_memory') # Len(company_memory))
             => LET id == resp'.request.decision_id
                IN  /\ Len(company_memory') = Len(company_memory) + 1
                    /\ ~NotActive(id)
                    /\ company_memory'[id].status = "superseded"]_vars

\* a decision was refined and a second refine of it was refused: it is
\* superseded, its one successor is the last record, the table has two records
C21_Witness ==
    /\ resp.op = "refine"
    /\ resp.type = "error"
    /\ resp.request.decision_id = 1
    /\ Len(company_memory) = 2
    /\ company_memory[1].status = "superseded"
    /\ company_memory[2].status = "active"

\* the ids of a question list, in order
IdsOf(qs) == [i \in 1..Len(qs) |-> qs[i].id]

\* the statuses of a question list, in order
StatusesOf(qs) == [i \in 1..Len(qs) |-> qs[i].status]

\* first request of a run: a learner with no row was served a block with the
\* questions roi, data, owner
Trace1 ==
    /\ steps = 1
    /\ resp.op = "load_next_block"
    /\ IdsOf(PQ) = <<ID_roi, ID_data, ID_owner>>

\* second request: a reply classified as answering data and owner
Trace2 ==
    /\ steps = 2
    /\ resp.op = "submit_answer"
    /\ resp.request.analysis = [answered |-> <<ID_data, ID_owner>>, skipped |-> <<>>]
    /\ IdsOf(PQ) = <<ID_roi, ID_data, ID_owner>>

\* third request: a reply with an ROI formula classified as answering roi
Trace3 ==
    /\ steps = 3
    /\ resp.op = "submit_answer"
    /\ resp.request.answer = ReplyFormula
    /\ resp.request.analysis = [answered |-> <<ID_roi>>, skipped |-> <<>>]
    /\ StatusesOf(PQ) = <<"answered", "answered", "answered">>
    /\ IdsOf(PQ) = <<ID_roi, ID_data, ID_owner>>

\* C22: the end-to-end trace. The first load of a learner with no row serves
\* the first block of the first methodology lecture with roi, data and owner
\* open; a reply classified data and owner answered gives answered=2, open=1,
\* can_continue false and no decision; a reply with an ROI formula classified
\* roi answered closes every question, commits exactly one decision and gives
\* can_continue true; the request_advance after it is not gate-blocked and
\* serves the second block with a question set whose questions are all open.
C22_EndToEndTrace ==
    [][/\ Trace1'
            => /\ resp'.type = "block"
               /\ resp'.chunks[1].lecture_id = "meth-1"
               /\ resp'.chunks[1].sequence_order = 1
               /\ StatusesOf(PQ') = <<"open", "open", "open">>
               /\ company_memory' = <<>>
       /\ (Trace1 /\ Trace2')
            => /\ resp'.questions_stats.answered = 2
               /\ resp'.questions_stats.open = 1
               /\ resp'.can_continue = FALSE
               /\ resp'.memory_saved = FALSE
               /\ StatusesOf(PQ') = <<"open", "answered", "answered">>
               /\ company_memory' = <<>>
       /\ (Trace2 /\ Trace3')
            => /\ resp'.all_closed
               /\ resp'.can_continue
               /\ resp'.memory_saved
               /\ Len(company_memory') = 1
               /\ Draft' = None
       /\ (Trace3 /\ Len(company_memory) = 1 /\ resp'.op = "request_advance")
            => /\ resp'.type = "block"
               /\ resp'.chunks[1].lecture_id = "meth-1"
               /\ resp'.chunks[1].sequence_order = BlockLimit + 1
               /\ PQ' # <<>>
               /\ \A i \in 1..Len(PQ') :
                     PQ'[i].status = "open" /\ PQ'[i].user_answer = None
               /\ resp'.can_continue = FALSE
               /\ Len(company_memory') = 1]_vars

\* the end of the trace: the fourth request, a request_advance, served the
\* second block after the one decision was committed
C22_Witness ==
    /\ steps = 4
    /\ resp.op = "request_advance"
    /\ resp.type = "block"
    /\ resp.request.had_block_id
    /\ resp.request.had_lecture
    /\ ~resp.request.had_open
    /\ resp.chunks[1].sequence_order = BlockLimit + 1
    /\ Len(company_memory) = 1
    /\ company_memory[1].related_lecture_id = "meth-1"
    /\ Len(company_memory[1].user_decision_raw) = 3
    /\ IdsOf([i \in 1..3 |->
                [id |-> company_memory[1].user_decision_raw[i].question_id]])
          = <<ID_data, ID_owner, ID_roi>>
    /\ company_memory[1].user_decision_raw[3].answer = ReplyFormula
    /\ \A i \in 1..Len(PQ) : PQ[i].status = "open"

\* the results of the search a load_next_block response was built from
SearchResults ==
    match_company_memory(company_memory, resp'.request.similarity, ConflictLimit)

\* the place of a decision in the search results, 0 when it is not there
PlaceOf(results, decision_id) ==
    IF \E k \in 1..Len(results) : results[k].id = decision_id
    THEN CHOOSE k \in 1..Len(results) : results[k].id = decision_id
    ELSE 0

\* C23: a load that serves a block returns at most 5 conflict candidates:
\* one for each result of the similarity search whose similarity is above 0.5
\* and no other, in the order of the search results; the decisions are
\* left as they were and the learner's row is the one study_next writes.
C23_ConflictCandidates ==
    [][(resp'.op = "load_next_block" /\ resp'.type = "block")
       => LET c == resp'.conflicts
              results == SearchResults
          IN  /\ Len(c) <= 5
              /\ {c[i].decision_id : i \in 1..Len(c)}
                    = {results[k].id : k \in {j \in 1..Len(results) :
                          results[j].similarity > ConflictThreshold}}
              /\ \A i \in 1..Len(c) :
                    /\ PlaceOf(results, c[i].decision_id) # 0
                    /\ c[i].similarity
                          = results[PlaceOf(results, c[i].decision_id)].similarity
                    /\ c[i].topic
                          = results[PlaceOf(results, c[i].decision_id)].related_topic
              /\ \A i, j \in 1..Len(c) :
                    i < j => PlaceOf(results, c[i].decision_id)
                                < PlaceOf(results, c[j].decision_id)
              /\ company_memory' = company_memory
              /\ user_progress' \in
                    {study_next(course, FORCE_FALLBACK_QUESTIONS, user_progress,
                                llm).row : llm \in StudyOutputs}]_vars

\* more decisions are stored than the search returns, all above the threshold
\* but the first, which is at it: five candidates, the last stored decision,
\* the nearest, first
C23_Witness ==
    /\ resp.op = "load_next_block"
    /\ resp.type = "block"
    /\ Len(company_memory) > ConflictLimit
    /\ resp.request.similarity[1] = ConflictThreshold
    /\ \A i \in 2..Len(company_memory) :
          resp.request.similarity[i] > ConflictThreshold
    /\ resp.request.similarity[Len(company_memory)] > resp.request.similarity[2]
    /\ Len(resp.conflicts) = ConflictLimit
    /\ resp.conflicts[1].decision_id = Len(company_memory)

\* the lecture and sequence cursor of a row
CursorPair(row) == <<row.current_lecture_id, row.current_sequence_order>>

\* both requests have returned a block, and they read the same cursor
BothServedFromSameCursor ==
    /\ \A i \in Requests : inflight[i].pc = "done" /\ inflight[i].result = "block"
    /\ CursorPair(CursorOf(inflight[1].progress))
          = CursorPair(CursorOf(inflight[2].progress))

\* C24: with two load_next_block requests in flight and nothing serializing
\* them, both can read the same cursor; whenever they have, both are served
\* the same block and the cursor is left at the last unit of that one block.
C24_LostCursorUpdate ==
    BothServedFromSameCursor
        => /\ inflight[1].chunks = inflight[2].chunks
           /\ user_progress # None
           /\ CursorPair(user_progress)
                 = <<inflight[1].chunks[Len(inflight[1].chunks)].lecture_id,
                     inflight[1].chunks[Len(inflight[1].chunks)].sequence_order>>

\* the only two requests of the run were in flight together on a learner with
\* no row: both were served units 1 to 5 of the first lecture, and the cursor
\* is at unit 5 though the lecture has more units
C24_Witness ==
    /\ steps = 2
    /\ BothServedFromSameCursor
    /\ inflight[1].chunks = inflight[2].chunks
    /\ Len(inflight[1].chunks) = BlockLimit
    /\ inflight[1].chunks[1].sequence_order = 1
    /\ user_progress.current_lecture_id = "meth-1"
    /\ user_progress.current_sequence_order = BlockLimit
    /\ Unserved(user_progress) # {}

\* C25: no operation ends with every stored question answered or skipped
\* and a draft that holds an answer: closing the last open question commits
\* the draft within the operation.
C25_ClosedBlockHasNoDraft ==
    ~(/\ PQ # <<>>
      /\ ~HasOpen(PQ)
      /\ Draft # None
      /\ Draft.answers # <<>>)

\* C26: a submit_answer whose commit met a collaborator failure leaves either
\* one more decision and no draft, or the decisions as they were and the
\* draft in place.
C26_CommitAtomic ==
    [][(resp'.op = "submit_answer" /\ resp'.type = "error")
       => \/ /\ Len(company_memory') = Len(company_memory) + 1
             /\ Draft' = None
          \/ /\ company_memory' = company_memory
             /\ Draft' # None
             /\ Draft'.answers # <<>>]_vars

\* C26, the retry: the same submit_answer sent again after a failure does
\* not insert a second decision with the answers of the decision the failed
\* request inserted.
C26_RetryInsertsNoDuplicate ==
    [][(/\ resp.op = "submit_answer" /\ resp.type = "error"
        /\ resp'.op = "submit_answer" /\ resp'.type = "answer"
        /\ resp'.request.answer = resp.request.answer
        /\ resp'.request.analysis = resp.request.analysis
        /\ Len(company_memory) >= 1
        /\ Len(company_memory') = Len(company_memory) + 1)
       => company_memory'[Len(company_memory')].user_decision_raw
             # company_memory[Len(company_memory)].user_decision_raw]_vars

\* C27: when two submit_answer requests in flight together both saw every
\* question closed and read the same draft, at most one of them inserts a
\* decision for it.
C27_ConcurrentCommitOnce ==
    \A i \in Requests :
        (/\ inflight[i].overlap
         /\ inflight[i].closed
         /\ inflight[Other(i)].closed
         /\ inflight[Other(i)].draft = inflight[i].draft)
        => inflight[i].inserted + inflight[Other(i)].inserted <= 1

\* C28: a refine of an active decision that fails (the embedding call or the
\* insert raises) leaves that decision active.
C28_FailedRefineKeepsActive ==
    [][(/\ resp'.op = "refine"
        /\ resp'.type = "error"
        /\ ~NotActive(resp'.request.decision_id))
       => company_memory'[resp'.request.decision_id].status = "active"]_vars

\* the lecture of the units a load must serve next: the first methodology
\* lecture, in (module, day, order), that has an unserved unit
NextLecture(unserved) ==
    FirstLectureId({l \in MethodologyLectures(course) :
                       \E ch \in unserved : ch.lecture_id = l.lecture_id})

\* C29: every load_next_block serves the next units in document order: the
\* first units, at most five, in increasing sequence order, of the first
\* methodology lecture that has a unit not yet served, and leaves the cursor
\* on the last of them; it serves none only when no unit is left. So a series
\* of loads from a fresh or reset row serves every unit once, in order, and
\* no block mixes two lectures.
C29_UnitsServedInOrder ==
    [][resp'.op = "load_next_block"
       => LET unserved == Unserved(CursorOf(user_progress))
              next == {ch \in unserved : ch.lecture_id = NextLecture(unserved)}
          IN  /\ resp'.chunks = OrderedChunks(next, BlockLimit)
              /\ resp'.chunks # <<>>
                    => CursorPair(user_progress')
                          = <<resp'.chunks[Len(resp'.chunks)].lecture_id,
                              resp'.chunks[Len(resp'.chunks)].sequence_order>>]_vars

\* the learner's place in the course: the lecture reference and the cursor
LearnerCursor ==
    IF user_progress = None THEN None ELSE CursorPair(user_progress)

\* the last request returned the completed result
Completed == resp.type = "completed"

\* C30: a learner who closes each block's questions and then asks for the next
\* block eventually receives the completed result; from then on every further
\* load_next_block or request_advance returns completed again and leaves the
\* lecture reference and the cursor as they were
C30_LearnerCompletes ==
    /\ <>Completed
    /\ [][Completed /\ resp'.op \in {"load_next_block", "request_advance"} =>
             Completed' /\ LearnerCursor' = LearnerCursor]_vars

\* the learner has committed a decision for more than one block, has reached
\* the last unit of the course and received completed, and receives it again
\* from a request_advance that finds the questions of the last block cleared
C30_Witness ==
    /\ Completed
    /\ resp.op = "request_advance"
    /\ resp.request.had_lecture
    /\ ~resp.request.had_block_id
    /\ Len(company_memory) >= 2
    /\ user_progress # None
    /\ user_progress.current_lecture_id = "meth-2"
    /\ user_progress.current_sequence_order = SecondLectureUnits
====
